---- MODULE Spec2Model ----
(***************************************************************************)
(* A model of the banana-slides backend: the Task Manager's task functions *)
(* (backend/services/task_manager.py), the slide agent toolkit             *)
(* (backend/services/slide_agent_tools.py) and the export controller       *)
(* (backend/controllers/export_controller.py), over a small database of    *)
(* Project, Page, PageImageVersion, Task and Material rows.                *)
(*                                                                         *)
(* Granularity.  A task function runs on a worker thread; every            *)
(* db.session.commit() publishes a state that other threads and the        *)
(* polling client can observe, so one action of the model runs the code    *)
(* from one commit (or blocking external call) up to and including the     *)
(* next commit.                                                            *)
(*                                                                         *)
(* Faults.  A call that leaves the process (the AI provider, MinerU, the   *)
(* file service, the file system) returns or raises; which of the two is   *)
(* the environment's choice.  A db.session.commit() in the try body of a   *)
(* task function may raise as well (the SQLite file is shared by all       *)
(* worker threads); a failed commit rolls the session back, so none of the *)
(* changes staged for it reaches the database.  The statements of an       *)
(* except handler that write the failure to the database are taken to      *)
(* succeed: with the database gone nothing could be recorded at all.       *)
(***************************************************************************)
EXTENDS Integers, Sequences, FiniteSets, TLC

\* ------------------------------------------------------------------ bounds
MaxTasks == 5       \* Task ids (rows that may be created in one behaviour)
MaxPages == 3       \* Page rows: pages 1..MaxPages-1 of one project, the last of another
AnyTasks == 2       \* tasks of any kind that specification Spec submits
AgentWorkers == 1   \* pool threads that run at once in specification SpecAgent
SeqRuns == 2        \* tasks that the specifications of non-overlapping runs submit
OverlapRuns == 2    \* runs of the two single-page tasks that may overlap
ToolThreads == 2    \* threads that may be inside a tool call of one toolkit instance
ThreadRuns == 2     \* tasks of the instance that the pool gets to run in SpecThreads
AsyncExports == 2   \* Task rows that the POST export endpoints create in SpecAsync
ManagerTasks == 2   \* task ids handed to TaskManager.submit_task in SpecManager

Tasks == 1 .. MaxTasks
Pages == 1 .. MaxPages
NoPage == MaxPages + 1      \* a page id that names no row

Projects == {"proj_a", "proj_b", "proj_empty"}
project_of(p) == IF p < MaxPages THEN "proj_a" ELSE "proj_b"
pages_of(pr) == {p \in Pages : project_of(p) = pr}

\* ------------------------------------------------------------------ state
VARIABLES
    task,        \* Task rows: task id -> [status, task_type, error_message, completed_at, progress]
    page,        \* Page rows: page id -> [project_id, status, description_content, generated_image_path]
    versions,    \* PageImageVersion rows in creation order
    project,     \* Project rows: project id -> status
    materials,   \* Material rows: the tasks that stored one
    job,         \* what was handed to task_manager.submit_task for a task id
    pc,          \* position of the worker thread running the task function
    exc,         \* str(e) of the exception the task function's try body raised ("" for none)
    local,       \* local variables of the running task function
    files,       \* files written below the upload folder's exports directories
    response,    \* the reply of the last request the export controller served
    active_tasks,\* SlideAgentTools.active_tasks of the one toolkit instance
    call,        \* the tool call the agent is in, and how far it got
    result,      \* what the last tool call returned
    future,      \* TaskManager: the Future of a submitted task id, and who has touched it
    manager,     \* TaskManager.active_tasks: the task ids that have an entry
    input,       \* the JSON body of the last request, or the arguments of the last utility call
    output,      \* what the utility function returned for them
    tmp_files,   \* files that exist in the system's temporary directory
    deleted_images \* page image files that have been deleted from the upload folder

vars == <<task, page, versions, project, materials, job, pc, exc, local, files, response,
          active_tasks, call, result, future, manager, input, output, tmp_files,
          deleted_images>>

\* the Task Manager's own bookkeeping and the utility functions' arguments and results
lib_vars == <<future, manager, input, output, tmp_files, deleted_images>>

\* what no task function touches
tool_vars == <<active_tasks, call, result, lib_vars>>
front_vars == <<files, response, active_tasks, call, result, lib_vars>>

db_vars == <<task, page, versions, project, materials>>

NoPath == [page_id |-> 0, version_number |-> 0]
NoProgress == [total |-> 0, completed |-> 0, failed |-> 0]
NoTask == [status |-> "NONE", task_type |-> "", error_message |-> "",
           completed_at |-> FALSE, progress |-> NoProgress]
NoJob == [func |-> "none", project_id |-> "", page_id |-> NoPage, temp_dir |-> FALSE,
          outline_len |-> 0]
NoLocal == [completed |-> 0, failed |-> 0, waiting |-> {}, running |-> {},
            errors |-> {}, failed_pages |-> {}, existing_versions |-> {},
            next_version |-> 0, image_path |-> NoPath, temp_dir_exists |-> FALSE,
            image_paths |-> {}, tmp_pdf_path |-> FALSE, clean_background_paths |-> {},
            config |-> "unread", use_inpainting |-> FALSE]

NoResponse == [request |-> "none", project_id |-> "", status |-> 0, message |-> ""]
NoCall == [tool |-> "none", page_id |-> NoPage, at |-> "idle"]
NoResult == [success |-> FALSE, message |-> "", suggestion |-> ""]

Terminal == {"COMPLETED", "FAILED"}
CommitOutcomes == {"ok", "db_error"}

\* file_service.save_generated_image(image, project_id, page_id, version_number=...):
\* the relative path of the stored file; version 0 stands for the unversioned name.
save_generated_image(p, v) == [page_id |-> p, version_number |-> v]

\* Task.set_progress(dict)
set_progress(t, total, completed, failed) ==
    [total |-> total, completed |-> completed, failed |-> failed]

\* Task.update_progress(completed=..., failed=...): the two counters, total kept
update_progress(prog, completed, failed) ==
    [prog EXCEPT !.completed = completed, !.failed = failed]

\* raise <msg> inside the try body: control moves to the except handler
Raise(t, msg) ==
    /\ pc' = [pc EXCEPT ![t] = "handler"]
    /\ exc' = [exc EXCEPT ![t] = msg]

Goto(t, label) ==
    /\ pc' = [pc EXCEPT ![t] = label]
    /\ UNCHANGED exc

\* the task function returns: its local variables are gone
Return(t) ==
    /\ pc' = [pc EXCEPT ![t] = "done"]
    /\ local' = [local EXCEPT ![t] = NoLocal]
    /\ UNCHANGED exc

\* ------------------------------------------------------------------ initial state
\* TaskManager() holds no entry; no utility function has been called
\* state: of the Future; at: how far the thread inside TaskManager.submit_task has got;
\* callbacks: done-callbacks held by the Future; invoked: the worker thread has gone
\* through them; ran: runs of _task_done_callback; outcome: how the function finished
NoFuture == [state |-> "NONE", at |-> "none", callbacks |-> 0, invoked |-> FALSE,
             ran |-> 0, outcome |-> ""]
NoValue == <<>>

LibInit ==
    /\ future = [t \in Tasks |-> NoFuture]
    /\ manager = {}
    /\ input = NoValue
    /\ output = NoValue
    /\ tmp_files = {}
    /\ deleted_images = {}

\* The first page of the larger project and the page of the other project have
\* a description from the start; the remaining pages get theirs from a task.
Described == {1, MaxPages}

DbInit ==
    /\ task = [t \in Tasks |-> NoTask]
    /\ page = [p \in Pages |->
                 [project_id |-> project_of(p),
                  status |-> IF p \in Described THEN "DESCRIPTION_GENERATED" ELSE "PENDING",
                  description_content |-> p \in Described,
                  generated_image_path |-> NoPath]]
    /\ versions = <<>>
    /\ project = [pr \in Projects |-> "DRAFT"]
    /\ materials = {}

Init ==
    /\ DbInit
    /\ job = [t \in Tasks |-> NoJob]
    /\ pc = [t \in Tasks |-> "idle"]
    /\ exc = [t \in Tasks |-> ""]
    /\ local = [t \in Tasks |-> NoLocal]
    /\ files = {}
    /\ response = NoResponse
    /\ active_tasks = <<>>
    /\ call = NoCall
    /\ result = NoResult
    /\ LibInit

\* ------------------------------------------------------------------ TaskManager
\* A controller creates the Task row (status PENDING) and hands the function to
\* TaskManager.submit_task, which queues it on the executor.
submit_task(t, task_type, func, pr, pg, tmp, n) ==
    /\ task[t].status = "NONE"
    /\ \A u \in Tasks : u < t => task[u].status # "NONE"
    /\ task' = [task EXCEPT ![t] = [NoTask EXCEPT !.status = "PENDING", !.task_type = task_type]]
    /\ job' = [job EXCEPT ![t] = [func |-> func, project_id |-> pr, page_id |-> pg,
                                  temp_dir |-> tmp, outline_len |-> n]]
    /\ pc' = [pc EXCEPT ![t] = "queued"]
    /\ local' = [local EXCEPT ![t] = [NoLocal EXCEPT !.temp_dir_exists = tmp]]
    /\ UNCHANGED <<page, versions, project, materials, exc>>

\* The opening of a task function: task = Task.query.get(task_id); if not task: return;
\* task.status = 'PROCESSING'; db.session.commit()
BeginProcessing(t, func, next) ==
    /\ pc[t] = "queued"
    /\ job[t].func = func
    /\ \E db \in CommitOutcomes :
          IF task[t].status = "NONE"
          THEN Return(t) /\ UNCHANGED task
          ELSE IF db = "ok"
          THEN /\ Goto(t, next)
               /\ task' = [task EXCEPT ![t].status = "PROCESSING"]
               /\ UNCHANGED local
          ELSE Raise(t, db) /\ UNCHANGED <<task, local>>
    /\ UNCHANGED <<page, versions, project, materials, job, front_vars>>

\* except Exception as e: task = Task.query.get(task_id); if task: task.status = 'FAILED';
\* task.error_message = str(e); task.completed_at = utcnow(); db.session.commit()
MarkTaskFailed(t) ==
    IF task[t].status = "NONE"
    THEN UNCHANGED task
    ELSE task' = [task EXCEPT ![t].status = "FAILED",
                               ![t].error_message = exc[t],
                               ![t].completed_at = TRUE]

\* page = Page.query.get(page_id); if page: page.status = 'FAILED'; db.session.commit()
MarkPageFailed(t) ==
    /\ pc[t] = "handler_page"
    /\ IF job[t].page_id \in Pages
       THEN page' = [page EXCEPT ![job[t].page_id].status = "FAILED"]
       ELSE UNCHANGED page
    /\ Return(t)
    /\ UNCHANGED <<task, versions, project, materials, job, front_vars>>

\* existing_versions = PageImageVersion.query.filter_by(page_id=page_id).all()
VersionsOf(p) == {i \in 1 .. Len(versions) : versions[i].page_id = p}

\* RecordNewVersion without the loop that clears is_current
RecordNewVersion_keep_current(t) ==
    Append(versions,
           [page_id |-> job[t].page_id,
            image_path |-> local[t].image_path,
            version_number |-> local[t].next_version,
            is_current |-> TRUE])

\* for version in existing_versions: version.is_current = False; then the new row,
\* version_number = next_version, is_current = True, is added
RecordNewVersion(t) ==
    Append([i \in 1 .. Len(versions) |->
               IF i \in local[t].existing_versions
               THEN [versions[i] EXCEPT !.is_current = FALSE]
               ELSE versions[i]],
           [page_id |-> job[t].page_id,
            image_path |-> local[t].image_path,
            version_number |-> local[t].next_version,
            is_current |-> TRUE])

\* page.generated_image_path = image_path; page.status = 'COMPLETED'; task.status =
\* 'COMPLETED'; task.completed_at = utcnow(); task.set_progress({1, 1, 0}); commit
CommitNewVersion(t, func) ==
    /\ pc[t] = "commit"
    /\ job[t].func = func
    /\ \E db \in CommitOutcomes :
          IF db = "ok"
          THEN /\ versions' = RecordNewVersion(t)
               /\ page' = [page EXCEPT
                     ![job[t].page_id].generated_image_path = local[t].image_path,
                     ![job[t].page_id].status = "COMPLETED"]
               /\ task' = [task EXCEPT ![t].status = "COMPLETED",
                                       ![t].completed_at = TRUE,
                                       ![t].progress = set_progress(t, 1, 1, 0)]
               /\ Return(t)
          ELSE /\ Raise(t, db)
               /\ UNCHANGED <<task, page, versions, local>>
    /\ UNCHANGED <<project, materials, job, front_vars>>

\* TaskManager.submit_task, statement by statement, against the worker thread of the
\* ThreadPoolExecutor that runs the submitted function.
\* what none of these statements touches
beyond_manager == <<task, page, versions, project, materials, job, pc, exc, local, files,
                    response, active_tasks, call, result, input, output, tmp_files,
                    deleted_images>>

\* future = self.executor.submit(func, task_id, ...): the Future is created PENDING and
\* the work item queued
executor_submit(t) ==
    /\ UNCHANGED beyond_manager
    /\ future[t].at = "none"
    /\ future' = [future EXCEPT ![t].state = "PENDING", ![t].at = "submitted"]
    /\ UNCHANGED manager

\* with self.lock: self.active_tasks[task_id] = future
store_future(t) ==
    /\ UNCHANGED beyond_manager
    /\ future[t].at = "submitted"
    /\ manager' = manager \cup {t}
    /\ future' = [future EXCEPT ![t].at = "stored"]

\* _cleanup_task: with self.lock: if task_id in self.active_tasks: del ...
cleanup_task(t) == manager \ {t}

\* is_task_active
is_task_active(t) == t \in manager

\* add_done_callback that only ever appends the callback
add_done_callback_append_only(t) ==
    /\ UNCHANGED beyond_manager
    /\ future[t].at = "stored"
    /\ future' = [future EXCEPT ![t].callbacks = @ + 1, ![t].at = "returned"]
    /\ UNCHANGED manager

\* future.add_done_callback(lambda f: self._task_done_callback(task_id, f)): under the
\* Future's condition the callback is appended unless the Future is finished; a
\* finished Future has it called at once, by the thread inside submit_task
add_done_callback(t) ==
    /\ UNCHANGED beyond_manager
    /\ future[t].at = "stored"
    /\ IF future[t].state # "FINISHED"
       THEN /\ future' = [future EXCEPT ![t].callbacks = @ + 1, ![t].at = "returned"]
            /\ UNCHANGED manager
       ELSE /\ future' = [future EXCEPT ![t].ran = @ + 1, ![t].at = "returned"]
            /\ manager' = cleanup_task(t)

\* the worker thread takes the work item: the Future is RUNNING, the function runs
work_item_run(t) ==
    /\ UNCHANGED beyond_manager
    /\ future[t].state = "PENDING"
    /\ future' = [future EXCEPT ![t].state = "RUNNING"]
    /\ UNCHANGED manager

\* the function returns or raises: set_result / set_exception make the Future FINISHED
set_result(t) ==
    /\ UNCHANGED beyond_manager
    /\ future[t].state = "RUNNING"
    /\ \E outcome \in {"returned", "raised"} :
          future' = [future EXCEPT ![t].state = "FINISHED", ![t].outcome = outcome]
    /\ UNCHANGED manager

\* ... and then call the callbacks the Future holds: _task_done_callback reads
\* future.exception(), logs, and in its finally block calls _cleanup_task
invoke_callbacks(t) ==
    /\ UNCHANGED beyond_manager
    /\ future[t].state = "FINISHED"
    /\ ~future[t].invoked
    /\ future' = [future EXCEPT ![t].invoked = TRUE, ![t].ran = @ + future[t].callbacks]
    /\ manager' = IF future[t].callbacks > 0 THEN cleanup_task(t) ELSE manager

\* ------------------------------------------------------------------ generate_single_page_image_task
single_begin(t) == BeginProcessing(t, "generate_single_page_image_task", "page")

\* page = Page.query.get(page_id); not found or of another project: raise;
\* page.status = 'GENERATING'; commit
single_page(t) ==
    /\ pc[t] = "page"
    /\ job[t].func = "generate_single_page_image_task"
    /\ \E db \in CommitOutcomes :
          IF job[t].page_id \notin Pages \/ page[job[t].page_id].project_id # job[t].project_id
          THEN Raise(t, "Page not found") /\ UNCHANGED page
          ELSE IF db = "ok"
          THEN Goto(t, "generate")
               /\ page' = [page EXCEPT ![job[t].page_id].status = "GENERATING"]
          ELSE Raise(t, db) /\ UNCHANGED page
    /\ UNCHANGED <<task, versions, project, materials, job, local, front_vars>>

\* description, template, prompt and image from the AI service; then the next version
\* number is computed from the rows present now and the image file is saved.  Whatever
\* fails here (no template, the AI service, no image, the file service) reaches the
\* handler in the same way; "Failed to generate image" stands for all of them.
single_generate(t) ==
    /\ pc[t] = "generate"
    /\ job[t].func = "generate_single_page_image_task"
    /\ \E out \in {"ok", "Failed to generate image"} :
          IF ~page[job[t].page_id].description_content
          THEN Raise(t, "No description content for page") /\ UNCHANGED local
          ELSE IF out # "ok"
          THEN Raise(t, out) /\ UNCHANGED local
          ELSE /\ Goto(t, "commit")
               /\ local' = [local EXCEPT
                     ![t].existing_versions = VersionsOf(job[t].page_id),
                     ![t].next_version = Cardinality(VersionsOf(job[t].page_id)) + 1,
                     ![t].image_path = save_generated_image(job[t].page_id,
                                          Cardinality(VersionsOf(job[t].page_id)) + 1)]
    /\ UNCHANGED <<task, page, versions, project, materials, job, front_vars>>

single_commit(t) == CommitNewVersion(t, "generate_single_page_image_task")

\* except: the Task row is marked FAILED, then the Page row
single_handler(t) ==
    /\ pc[t] = "handler"
    /\ job[t].func = "generate_single_page_image_task"
    /\ MarkTaskFailed(t)
    /\ Goto(t, "handler_page")
    /\ UNCHANGED <<page, versions, project, materials, job, local, front_vars>>

single_handler_page(t) ==
    /\ job[t].func = "generate_single_page_image_task"
    /\ MarkPageFailed(t)

generate_single_page_image_task(t) ==
    \/ single_begin(t)
    \/ single_page(t)
    \/ single_generate(t)
    \/ single_commit(t)
    \/ single_handler(t)
    \/ single_handler_page(t)

\* ------------------------------------------------------------------ edit_page_image_task
edit_begin(t) == BeginProcessing(t, "edit_page_image_task", "page")

\* page = Page.query.get(page_id); not found or of another project: raise; no generated
\* image: raise; page.status = 'GENERATING'; commit
edit_page(t) ==
    /\ pc[t] = "page"
    /\ job[t].func = "edit_page_image_task"
    /\ \E db \in CommitOutcomes :
          IF job[t].page_id \notin Pages \/ page[job[t].page_id].project_id # job[t].project_id
          THEN Raise(t, "Page not found") /\ UNCHANGED page
          ELSE IF page[job[t].page_id].generated_image_path = NoPath
          THEN Raise(t, "Page must have generated image first") /\ UNCHANGED page
          ELSE IF db = "ok"
          THEN Goto(t, "generate")
               /\ page' = [page EXCEPT ![job[t].page_id].status = "GENERATING"]
          ELSE Raise(t, db) /\ UNCHANGED page
    /\ UNCHANGED <<task, versions, project, materials, job, local, front_vars>>

\* try: image = ai_service.edit_image(...) finally: shutil.rmtree(temp_dir) when the
\* directory exists; no image: raise; then the version number and the saved file.
\* An exception of rmtree replaces the one edit_image raised.  "Failed to edit image"
\* stands for every failure of the AI service and the file service.
edit_generate(t) ==
    /\ pc[t] = "generate"
    /\ job[t].func = "edit_page_image_task"
    /\ \E ai \in {"ok", "Failed to edit image"}, rm \in {"ok", "rmtree_error"} :
          LET kept == local[t].temp_dir_exists /\ rm # "ok"
              out == IF kept THEN rm ELSE ai
          IN  IF out # "ok"
              THEN /\ Raise(t, out)
                   /\ local' = [local EXCEPT ![t].temp_dir_exists = kept]
              ELSE /\ Goto(t, "commit")
                   /\ local' = [local EXCEPT
                         ![t].temp_dir_exists = FALSE,
                         ![t].existing_versions = VersionsOf(job[t].page_id),
                         ![t].next_version = Cardinality(VersionsOf(job[t].page_id)) + 1,
                         ![t].image_path = save_generated_image(job[t].page_id,
                                              Cardinality(VersionsOf(job[t].page_id)) + 1)]
    /\ UNCHANGED <<task, page, versions, project, materials, job, front_vars>>

edit_commit(t) == CommitNewVersion(t, "edit_page_image_task")

\* except: if temp_dir still exists, shutil.rmtree(temp_dir) (errors not ignored: an
\* exception leaves the handler and the task function); then the Task row is marked
\* FAILED, then the Page row
edit_handler(t) ==
    /\ pc[t] = "handler"
    /\ job[t].func = "edit_page_image_task"
    /\ \E rm \in {"ok", "rmtree_error"} :
          IF local[t].temp_dir_exists /\ rm # "ok"
          THEN /\ Goto(t, "escaped")
               /\ local' = [local EXCEPT ![t] = NoLocal]
               /\ UNCHANGED task
          ELSE /\ MarkTaskFailed(t)
               /\ local' = [local EXCEPT ![t].temp_dir_exists = FALSE]
               /\ Goto(t, "handler_page")
    /\ UNCHANGED <<page, versions, project, materials, job, front_vars>>

edit_handler_page(t) ==
    /\ job[t].func = "edit_page_image_task"
    /\ MarkPageFailed(t)

edit_page_image_task(t) ==
    \/ edit_begin(t)
    \/ edit_page(t)
    \/ edit_generate(t)
    \/ edit_commit(t)
    \/ edit_handler(t)
    \/ edit_handler_page(t)

\* ------------------------------------------------------------------ the fan-out tasks
\* pages = Page.query.filter_by(project_id=project_id).order_by(Page.order_index).all()
ProjectPages(pr) == {p \in Pages : page[p].project_id = pr}

\* zip(pages, pages_data): the first min(len(pages), len(pages_data)) pages
Zipped(pr, n) == {p \in ProjectPages(pr) : Cardinality({q \in ProjectPages(pr) : q < p}) < n}

\* task.update_progress(completed=completed, failed=failed); commit
FanOutProgress(t, func) ==
    /\ pc[t] = "progress"
    /\ job[t].func = func
    /\ \E db \in CommitOutcomes :
          IF db = "ok"
          THEN /\ task' = [task EXCEPT ![t].progress =
                              update_progress(@, local[t].completed, local[t].failed)]
               /\ Goto(t, IF local[t].waiting = {} /\ local[t].running = {}
                          THEN "complete" ELSE "drain")
          ELSE Raise(t, db) /\ UNCHANGED task
    /\ UNCHANGED <<page, versions, project, materials, job, local, front_vars>>

\* FanOutComplete without the test of failed: the project's status is always written
FanOutComplete_always_project(t, func) ==
    /\ pc[t] = "complete"
    /\ job[t].func = func
    /\ task' = [task EXCEPT ![t].status = "COMPLETED", ![t].completed_at = TRUE]
    /\ Goto(t, "project")
    /\ UNCHANGED <<page, versions, project, materials, job, local, front_vars>>

\* task.status = 'COMPLETED'; task.completed_at = utcnow(); commit.  With failed > 0
\* nothing follows; with failed = 0 the project's status is written next.
FanOutComplete(t, func) ==
    /\ pc[t] = "complete"
    /\ job[t].func = func
    /\ \E db \in CommitOutcomes :
          IF db = "ok"
          THEN /\ task' = [task EXCEPT ![t].status = "COMPLETED", ![t].completed_at = TRUE]
               /\ IF local[t].failed = 0
                  THEN Goto(t, "project") /\ UNCHANGED local
                  ELSE Return(t)
          ELSE Raise(t, db) /\ UNCHANGED <<task, local>>
    /\ UNCHANGED <<page, versions, project, materials, job, front_vars>>

\* project = Project.query.get(project_id); if project and failed == 0:
\* project.status = <status>; commit
FanOutProject(t, func, status) ==
    /\ pc[t] = "project"
    /\ job[t].func = func
    /\ \E db \in CommitOutcomes :
          IF db = "ok"
          THEN Return(t) /\ project' = [project EXCEPT ![job[t].project_id] = status]
          ELSE Raise(t, db) /\ UNCHANGED <<project, local>>
    /\ UNCHANGED <<task, page, versions, materials, job, front_vars>>

\* except Exception as e: the Task row is marked FAILED
FanOutHandler(t, func) ==
    /\ pc[t] = "handler"
    /\ job[t].func = func
    /\ MarkTaskFailed(t)
    /\ Return(t)
    /\ UNCHANGED <<page, versions, project, materials, job, front_vars>>

\* ------------------------------------------------------------------ generate_descriptions_task
desc_begin(t) == BeginProcessing(t, "generate_descriptions_task", "setup")

\* pages_data = flatten_outline(outline); pages = ...; lengths differ: raise;
\* task.set_progress({total: len(pages), completed: 0, failed: 0}); commit;
\* one generate_single_desc future per page
desc_setup(t) ==
    /\ pc[t] = "setup"
    /\ job[t].func = "generate_descriptions_task"
    /\ \E db \in CommitOutcomes :
          LET pages == ProjectPages(job[t].project_id)
          IN  IF Cardinality(pages) # job[t].outline_len
              THEN Raise(t, "Page count mismatch") /\ UNCHANGED <<task, local>>
              ELSE IF db = "ok"
              THEN /\ task' = [task EXCEPT ![t].progress =
                                  set_progress(t, Cardinality(pages), 0, 0)]
                   /\ local' = [local EXCEPT ![t].waiting = pages]
                   /\ Goto(t, IF pages = {} THEN "complete" ELSE "drain")
              ELSE Raise(t, db) /\ UNCHANGED <<task, local>>
    /\ UNCHANGED <<page, versions, project, materials, job, front_vars>>

\* for future in as_completed(futures): the next finished generate_single_desc, in
\* completion order, gave a description or an error; the Page row is updated; commit
desc_drain(t) ==
    /\ pc[t] = "drain"
    /\ job[t].func = "generate_descriptions_task"
    /\ \E p \in local[t].waiting, ai \in {"ok", "ai_error"}, db \in CommitOutcomes :
          IF db = "ok"
          THEN /\ page' = [page EXCEPT
                     ![p].status = IF ai = "ok" THEN "DESCRIPTION_GENERATED" ELSE "FAILED",
                     ![p].description_content = IF ai = "ok" THEN TRUE ELSE @]
               /\ local' = [local EXCEPT
                     ![t].waiting = @ \ {p},
                     ![t].completed = IF ai = "ok" THEN @ + 1 ELSE @,
                     ![t].failed = IF ai = "ok" THEN @ ELSE @ + 1,
                     ![t].failed_pages = IF ai = "ok" THEN @ ELSE @ \cup {p}]
               /\ Goto(t, "progress")
          ELSE Raise(t, db) /\ UNCHANGED <<page, local>>
    /\ UNCHANGED <<task, versions, project, materials, job, front_vars>>

desc_progress(t) == FanOutProgress(t, "generate_descriptions_task")
desc_complete(t) == FanOutComplete(t, "generate_descriptions_task")
desc_project(t) == FanOutProject(t, "generate_descriptions_task", "DESCRIPTIONS_GENERATED")
desc_handler(t) == FanOutHandler(t, "generate_descriptions_task")

generate_descriptions_task(t) ==
    \/ desc_begin(t)
    \/ desc_setup(t)
    \/ desc_drain(t)
    \/ desc_progress(t)
    \/ desc_complete(t)
    \/ desc_project(t)
    \/ desc_handler(t)

\* ------------------------------------------------------------------ generate_images_task
images_begin(t) == BeginProcessing(t, "generate_images_task", "setup")

\* pages = ...; pages_data = flatten_outline(outline); use_template and no template:
\* raise; task.set_progress({total: len(pages), ...}); commit; one generate_single_image
\* future per pair of zip(pages, pages_data)
images_setup(t) ==
    /\ pc[t] = "setup"
    /\ job[t].func = "generate_images_task"
    /\ \E out \in {"ok", "No template image found for project", "db_error"} :
          LET pages == ProjectPages(job[t].project_id)
              zipped == Zipped(job[t].project_id, job[t].outline_len)
          IN  IF out = "ok"
              THEN /\ task' = [task EXCEPT ![t].progress =
                                  set_progress(t, Cardinality(pages), 0, 0)]
                   /\ local' = [local EXCEPT ![t].waiting = zipped]
                   /\ Goto(t, IF zipped = {} THEN "complete" ELSE "drain")
              ELSE Raise(t, out) /\ UNCHANGED <<task, local>>
    /\ UNCHANGED <<page, versions, project, materials, job, front_vars>>

\* generate_single_image on a thread of the nested pool, up to its call of the AI
\* service: page_obj.status = 'GENERATING'; commit; no description: raise.  An exception
\* here is caught by the worker and becomes its error result.  The pool's threads run
\* on while the main thread drains, and when an exception leaves the with block the
\* executor's shutdown waits for them.
images_worker(t) ==
    /\ pc[t] \in {"drain", "progress", "handler"}
    /\ job[t].func = "generate_images_task"
    /\ \E p \in local[t].waiting, db \in CommitOutcomes :
          /\ local' = [local EXCEPT
                ![t].waiting = @ \ {p},
                ![t].running = @ \cup {p},
                ![t].errors = IF db = "ok" /\ page[p].description_content
                              THEN @ ELSE @ \cup {p}]
          /\ IF db = "ok"
             THEN page' = [page EXCEPT ![p].status = "GENERATING"]
             ELSE UNCHANGED page
    /\ UNCHANGED <<task, versions, project, materials, job, pc, exc, front_vars>>

\* for future in as_completed(futures): the next finished generate_single_image gave
\* (page_id, image_path, None) or (page_id, None, error), the error being the worker's
\* own or a failure of the AI service or the file service; the Page row is updated; commit
images_drain(t) ==
    /\ pc[t] = "drain"
    /\ job[t].func = "generate_images_task"
    /\ \E p \in local[t].running, ai \in {"ok", "ai_error"}, db \in CommitOutcomes :
          LET error == p \in local[t].errors \/ ai # "ok"
          IN  IF db = "ok"
              THEN /\ page' = [page EXCEPT
                         ![p].status = IF error THEN "FAILED" ELSE "COMPLETED",
                         ![p].generated_image_path =
                             IF error THEN @ ELSE save_generated_image(p, 0)]
                   /\ local' = [local EXCEPT
                         ![t].running = @ \ {p},
                         ![t].errors = @ \ {p},
                         ![t].completed = IF error THEN @ ELSE @ + 1,
                         ![t].failed = IF error THEN @ + 1 ELSE @,
                         ![t].failed_pages = IF error THEN @ \cup {p} ELSE @]
                   /\ Goto(t, "progress")
              ELSE Raise(t, db) /\ UNCHANGED <<page, local>>
    /\ UNCHANGED <<task, versions, project, materials, job, front_vars>>

images_progress(t) == FanOutProgress(t, "generate_images_task")
images_complete(t) == FanOutComplete(t, "generate_images_task")
images_project(t) == FanOutProject(t, "generate_images_task", "COMPLETED")
images_handler(t) ==
    /\ local[t].waiting = {}
    /\ FanOutHandler(t, "generate_images_task")

generate_images_task(t) ==
    \/ images_begin(t)
    \/ images_setup(t)
    \/ images_worker(t)
    \/ images_drain(t)
    \/ images_progress(t)
    \/ images_complete(t)
    \/ images_project(t)
    \/ images_handler(t)

\* ------------------------------------------------------------------ generate_material_image_task
material_begin(t) == BeginProcessing(t, "generate_material_image_task", "generate")

\* image = ai_service.generate_image(...); no image: raise; save_material_image;
\* Material row; task.status = 'COMPLETED', completed_at, progress {1, 1, 0}; commit;
\* finally: shutil.rmtree(temp_dir, ignore_errors=True)
material_generate(t) ==
    /\ pc[t] = "generate"
    /\ job[t].func = "generate_material_image_task"
    /\ \E out \in {"ok", "ai_error", "Failed to generate image", "io_error", "db_error"} :
          IF out = "ok"
          THEN /\ materials' = materials \cup {t}
               /\ task' = [task EXCEPT ![t].status = "COMPLETED",
                                       ![t].completed_at = TRUE,
                                       ![t].progress = set_progress(t, 1, 1, 0)]
               /\ Return(t)
          ELSE Raise(t, out) /\ UNCHANGED <<materials, task, local>>
    /\ UNCHANGED <<page, versions, project, job, front_vars>>

\* except: the Task row is marked FAILED; finally: rmtree(temp_dir, ignore_errors=True)
material_handler(t) ==
    /\ pc[t] = "handler"
    /\ job[t].func = "generate_material_image_task"
    /\ MarkTaskFailed(t)
    /\ Return(t)
    /\ UNCHANGED <<page, versions, project, materials, job, front_vars>>

generate_material_image_task(t) ==
    \/ material_begin(t)
    \/ material_generate(t)
    \/ material_handler(t)

\* ------------------------------------------------------------------ clean backgrounds
\* What get_config() returns, as far as the Volcengine credentials go: "absent" is the
\* Config class of config.py, which defines neither VOLCENGINE_ACCESS_KEY nor
\* VOLCENGINE_SECRET_KEY (reading one raises AttributeError); "empty" and "set" are a
\* configuration that defines them, without and with values.
Configs == {"absent", "empty", "set"}

\* What the calls made by generate_clean_background_with_inpainting do: Image.open of
\* the original; the elements handed in (none, some without a usable bbox, some with
\* one); the import of the inpainting service; the service call (an image, None, or
\* an exception); the save of the result to the temporary file.
Surroundings ==
    [open_ok : BOOLEAN, elements : {"none", "no_bbox", "valid"}, use_inpainting : BOOLEAN,
     config : Configs, import_ok : BOOLEAN, inpaint : {"image", "none", "raises"},
     save_ok : BOOLEAN]

\* what the function hands back and leaves behind: raised, the returned path (absent
\* for None) and the temporary files it created
Returned(path, created) ==
    [raised |-> FALSE, absent |-> FALSE, path |-> path, created |-> created]

\* generate_clean_background_with_inpainting that lets a failed save escape
generate_clean_background_save_escapes(original_image_path, env, tmp_name) ==
    IF ~env.open_ok
    THEN Returned(original_image_path, {})
    ELSE IF env.elements # "valid" \/ ~env.use_inpainting \/ env.config # "set"
    THEN Returned(original_image_path, {})
    ELSE IF ~env.import_ok \/ env.inpaint \in {"none", "raises"}
    THEN Returned(original_image_path, {})
    ELSE IF ~env.save_ok
    THEN [Returned(original_image_path, {tmp_name}) EXCEPT !.raised = TRUE]
    ELSE Returned(tmp_name, {tmp_name})

\* ExportService.generate_clean_background_with_inpainting(original_image_path,
\* element_bboxes, use_inpainting); tmp_name is the name NamedTemporaryFile picks
generate_clean_background_with_inpainting(original_image_path, env, tmp_name) ==
    IF ~env.open_ok
    THEN Returned(original_image_path, {})          \* except Exception
    ELSE IF env.elements = "none" \/ ~env.use_inpainting
    THEN Returned(original_image_path, {})
    ELSE IF env.elements = "no_bbox"
    THEN Returned(original_image_path, {})
    ELSE IF env.config = "absent"
    THEN Returned(original_image_path, {})          \* AttributeError, except Exception
    ELSE IF env.config = "empty"
    THEN Returned(original_image_path, {})
    ELSE IF ~env.import_ok
    THEN Returned(original_image_path, {})          \* except ImportError
    ELSE IF env.inpaint \in {"none", "raises"}
    THEN Returned(original_image_path, {})
    ELSE IF ~env.save_ok
    THEN Returned(original_image_path, {tmp_name})  \* the file exists, the save raised
    ELSE Returned(tmp_name, {tmp_name})

\* tempfile.NamedTemporaryFile(suffix=..., delete=False).name: a name of its own for
\* each file a task creates
TempName(kind, t, p) == [kind |-> kind, task |-> t, page_id |-> p]

\* ------------------------------------------------------------------ the export tasks
\* ImagePages that takes every page of the project
ImagePages_every_page(pr) == {p \in Pages : page[p].project_id = pr}

\* image_paths: the pages of the project that carry a generated_image_path
ImagePages(pr) == {p \in ProjectPages(pr) : page[p].generated_image_path # NoPath}

\* one stage of an export task: the stage's work raises <out> or is followed by
\* prog = task.get_progress(); prog['completed'] = n; task.set_progress(prog); commit
ExportStage(t, out, n, next) ==
    IF out = "ok"
    THEN Goto(t, next) /\ task' = [task EXCEPT ![t].progress.completed = n]
    ELSE Raise(t, out) /\ UNCHANGED task

\* task.status = 'COMPLETED'; completed_at; set_progress({total, completed: total, ...})
ExportCompleted(t, out) ==
    IF out = "ok"
    THEN /\ Return(t)
         /\ task' = [task EXCEPT ![t].status = "COMPLETED",
                                 ![t].completed_at = TRUE,
                                 ![t].progress = set_progress(t, task[t].progress.total,
                                                              task[t].progress.total, 0)]
    ELSE Raise(t, out) /\ UNCHANGED <<task, local>>

\* ------------------------------------------------------------------ export_editable_pptx_task
export_begin(t) == BeginProcessing(t, "export_editable_pptx_task", "setup")

\* project and pages; no pages: raise; no page with an image: raise;
\* set_progress({total: len(image_paths) + 3, completed: 0, failed: 0}); commit
export_setup(t) ==
    /\ pc[t] = "setup"
    /\ job[t].func = "export_editable_pptx_task"
    /\ \E db \in CommitOutcomes :
          IF ProjectPages(job[t].project_id) = {}
          THEN Raise(t, "No pages found for project") /\ UNCHANGED task
          ELSE IF ImagePages(job[t].project_id) = {}
          THEN Raise(t, "No generated images found for project") /\ UNCHANGED task
          ELSE IF db = "ok"
          THEN /\ Goto(t, "pdf")
               /\ task' = [task EXCEPT ![t].progress =
                     set_progress(t, Cardinality(ImagePages(job[t].project_id)) + 3, 0, 0)]
          ELSE Raise(t, db) /\ UNCHANGED task
    /\ local' = [local EXCEPT ![t].image_paths =
                    {page[p].generated_image_path : p \in ImagePages(job[t].project_id)}]
    /\ UNCHANGED <<page, versions, project, materials, job, front_vars>>

\* Step 1: the temporary PDF of the page images: NamedTemporaryFile(suffix='.pdf',
\* delete=False) creates the file, create_pdf_from_images fills it
export_temp_pdf(t) ==
    /\ pc[t] = "pdf"
    /\ job[t].func = "export_editable_pptx_task"
    /\ \E out \in {"ok", "io_error", "db_error"} : ExportStage(t, out, 1, "mineru")
    /\ local' = [local EXCEPT ![t].tmp_pdf_path = TRUE]
    /\ tmp_files' = tmp_files \cup {TempName("pdf", t, NoPage)}
    /\ UNCHANGED <<page, versions, project, materials, job, files, response, active_tasks,
                   call, result, future, manager, input, output, deleted_images>>

\* Step 2: no MinerU token: raise; parser_service.parse_file; an error message or no
\* extract_id: raise
export_mineru(t) ==
    /\ pc[t] = "mineru"
    /\ job[t].func = "export_editable_pptx_task"
    /\ \E out \in {"ok", "MinerU token not configured", "mineru_error", "db_error"} :
          ExportStage(t, out, 2, "backgrounds")
    /\ UNCHANGED <<page, versions, project, materials, job, local, front_vars>>

\* What the inpainting of one page may meet inside a task; a page whose image cannot
\* be opened, or that has no element, comes out as its original, as does one whose
\* inpainting returns None.
PageSurroundings(cfg) ==
    {env \in Surroundings : /\ env.open_ok /\ env.elements = "valid" /\ env.import_ok
                            /\ env.config = cfg
                            /\ env.use_inpainting = (cfg = "set")}

\* InpaintingExportHelper.generate_clean_backgrounds_with_inpainting: one path per
\* image path, an exception in a page's turn falling back to its original
generate_clean_backgrounds_with_inpainting(t, image_paths, envs) ==
    [path \in image_paths |->
        generate_clean_background_with_inpainting(
            path, envs[path], TempName("png", t, path.page_id))]

\* Step 3: no MinerU result directory: raise; config = get_config(); use_inpainting =
\* bool(config.VOLCENGINE_ACCESS_KEY and config.VOLCENGINE_SECRET_KEY);
\* clean_background_paths = the helper's list; progress completed = 3; commit
export_backgrounds(t) ==
    /\ pc[t] = "backgrounds"
    /\ job[t].func = "export_editable_pptx_task"
    /\ \E dir_ok \in BOOLEAN, cfg \in Configs, db \in CommitOutcomes :
          IF ~dir_ok
          THEN /\ Raise(t, "MinerU result directory not found")
               /\ UNCHANGED <<task, local, tmp_files>>
          ELSE IF cfg = "absent"
          THEN /\ Raise(t, "AttributeError: VOLCENGINE_ACCESS_KEY")
               /\ local' = [local EXCEPT ![t].config = cfg]
               /\ UNCHANGED <<task, tmp_files>>
          ELSE \E envs \in [local[t].image_paths -> PageSurroundings(cfg)] :
                  LET made == generate_clean_backgrounds_with_inpainting(
                                  t, local[t].image_paths, envs)
                  IN  /\ local' = [local EXCEPT
                            ![t].config = cfg,
                            ![t].use_inpainting = (cfg = "set"),
                            ![t].clean_background_paths =
                                {made[path].path : path \in local[t].image_paths}]
                      /\ tmp_files' = tmp_files \cup
                            UNION {made[path].created : path \in local[t].image_paths}
                      /\ ExportStage(t, db, 3, "pptx")
    /\ UNCHANGED <<page, versions, project, materials, job, files, response, active_tasks,
                   call, result, future, manager, input, output, deleted_images>>

\* Step 4: output name, slide size from the first image, the editable PPTX; then the
\* Task row is marked COMPLETED, its progress carrying used_inpainting; commit
export_pptx_file(t) ==
    /\ pc[t] = "pptx"
    /\ job[t].func = "export_editable_pptx_task"
    /\ \E out \in {"ok", "io_error", "db_error"} :
          IF out = "ok"
          THEN /\ Goto(t, "finally")
               /\ task' = [task EXCEPT
                     ![t].status = "COMPLETED",
                     ![t].completed_at = TRUE,
                     ![t].progress = [total |-> task[t].progress.total,
                                      completed |-> task[t].progress.total,
                                      failed |-> 0,
                                      used_inpainting |-> local[t].use_inpainting]]
          ELSE Raise(t, out) /\ UNCHANGED task
    /\ UNCHANGED <<page, versions, project, materials, job, local, front_vars>>

\* except Exception as e: the Task row is marked FAILED; the finally block follows
export_handler(t) ==
    /\ pc[t] = "handler"
    /\ job[t].func = "export_editable_pptx_task"
    /\ MarkTaskFailed(t)
    /\ Goto(t, "finally")
    /\ UNCHANGED <<page, versions, project, materials, job, local, front_vars>>

\* finally: os.unlink(tmp_pdf_path) if it was set; os.unlink of every path of
\* clean_background_paths that is not in image_paths
export_finally(t) ==
    /\ pc[t] = "finally"
    /\ job[t].func = "export_editable_pptx_task"
    /\ LET unlinked == {bg_path \in local[t].clean_background_paths :
                           bg_path \notin local[t].image_paths}
           pdf == IF local[t].tmp_pdf_path THEN {TempName("pdf", t, NoPage)} ELSE {}
       IN  /\ tmp_files' = tmp_files \ (pdf \cup unlinked)
           /\ deleted_images' = deleted_images \cup (unlinked \ tmp_files)
    /\ Return(t)
    /\ UNCHANGED <<task, page, versions, project, materials, job, files, response,
                   active_tasks, call, result, future, manager, input, output>>

export_editable_pptx_task(t) ==
    \/ export_begin(t)
    \/ export_setup(t)
    \/ export_temp_pdf(t)
    \/ export_mineru(t)
    \/ export_backgrounds(t)
    \/ export_pptx_file(t)
    \/ export_handler(t)
    \/ export_finally(t)

\* ------------------------------------------------------------------ export_editable_pptx_with_recursive_analysis_task
\* The function opens with the project and its pages, not with the Task row: no pages:
\* raise; no page whose image file exists: raise; task = Task.query.get(task_id);
\* task.set_progress({total: 3, completed: 0, failed: 0}); commit.  The Task row's
\* status is not written here.
recursive_setup(t) ==
    /\ pc[t] = "queued"
    /\ job[t].func = "export_editable_pptx_with_recursive_analysis_task"
    /\ \E out \in {"ok", "No generated images found for project", "db_error"} :
          IF ProjectPages(job[t].project_id) = {}
          THEN Raise(t, "No pages found for project") /\ UNCHANGED task
          ELSE IF ImagePages(job[t].project_id) = {}
          THEN Raise(t, "No generated images found for project") /\ UNCHANGED task
          ELSE IF out = "ok"
          THEN /\ Goto(t, "prepare")
               /\ task' = [task EXCEPT ![t].progress = set_progress(t, 3, 0, 0)]
          ELSE Raise(t, out) /\ UNCHANGED task
    /\ UNCHANGED <<page, versions, project, materials, job, local, front_vars>>

\* exports directory, output name, no MinerU token: raise, slide size from the first
\* image; progress completed = 1; commit
recursive_prepare(t) ==
    /\ pc[t] = "prepare"
    /\ job[t].func = "export_editable_pptx_with_recursive_analysis_task"
    /\ \E out \in {"ok", "MinerU token not configured", "io_error", "db_error"} :
          ExportStage(t, out, 1, "create")
    /\ UNCHANGED <<page, versions, project, materials, job, local, front_vars>>

\* ExportService.create_editable_pptx_with_recursive_analysis(...); progress
\* completed = 2; commit
recursive_create(t) ==
    /\ pc[t] = "create"
    /\ job[t].func = "export_editable_pptx_with_recursive_analysis_task"
    /\ \E out \in {"ok", "export_error", "db_error"} : ExportStage(t, out, 2, "complete")
    /\ UNCHANGED <<page, versions, project, materials, job, local, front_vars>>

\* task.status = 'COMPLETED'; completed_at; the final progress payload; commit
recursive_complete(t) ==
    /\ pc[t] = "complete"
    /\ job[t].func = "export_editable_pptx_with_recursive_analysis_task"
    /\ \E out \in {"ok", "db_error"} : ExportCompleted(t, out)
    /\ UNCHANGED <<page, versions, project, materials, job, front_vars>>

recursive_handler(t) == FanOutHandler(t, "export_editable_pptx_with_recursive_analysis_task")

export_editable_pptx_with_recursive_analysis_task(t) ==
    \/ recursive_setup(t)
    \/ recursive_prepare(t)
    \/ recursive_create(t)
    \/ recursive_complete(t)
    \/ recursive_handler(t)

\* ------------------------------------------------------------------ export controller
\* A file name is the list of its parts; the last part is its suffix.
\* filename = request.args.get('filename', f'presentation_{project_id}<ext>');
\* if not filename.endswith(ext): filename += ext
export_filename(pr, requested, ext) ==
    LET filename == IF requested = <<>> THEN <<"presentation_", pr, ext>> ELSE requested
    IN  IF filename[Len(filename)] = ext THEN filename ELSE Append(filename, ext)

\* what the query string may carry as filename (<<>>: the parameter is absent)
RequestedNames == {<<>>, <<"deck">>, <<"deck", ".pptx">>, <<"deck", ".pdf">>}

Reply(request, pr, status, message) ==
    [request |-> request, project_id |-> pr, status |-> status, message |-> message]

\* The body shared by export_pptx and export_pdf: project missing: 404; no pages: 400;
\* no page with a generated_image_path: 400; else the file is written below the
\* project's exports directory and its download URL returned; an exception: 500
export_file(request, ext, pr, requested, out) ==
    /\ IF pr \notin Projects
       THEN /\ response' = Reply(request, pr, 404, "Project not found")
            /\ UNCHANGED files
       ELSE IF ProjectPages(pr) = {}
       THEN /\ response' = Reply(request, pr, 400, "No pages found for project")
            /\ UNCHANGED files
       ELSE IF ImagePages(pr) = {}
       THEN /\ response' = Reply(request, pr, 400, "No generated images found for project")
            /\ UNCHANGED files
       ELSE IF out = "ok"
       THEN /\ response' = Reply(request, pr, 200, "Export task created")
            /\ files' = files \cup {[project_id |-> pr,
                                      filename |-> export_filename(pr, requested, ext)]}
       ELSE /\ response' = Reply(request, pr, 500, out)
            /\ UNCHANGED files
    /\ UNCHANGED <<task, page, versions, project, materials, job, pc, exc, local, tool_vars>>

\* GET /api/projects/{project_id}/export/pptx?filename=...
export_pptx(pr, requested) ==
    \E out \in {"ok", "io_error"} : export_file("export_pptx", ".pptx", pr, requested, out)

\* GET /api/projects/{project_id}/export/pdf?filename=...
export_pdf(pr, requested) ==
    \E out \in {"ok", "io_error"} : export_file("export_pdf", ".pdf", pr, requested, out)

\* ------------------------------------------------------------------ asynchronous exports
\* A value of the request's JSON body as Python sees it: an int, a bool (true is 1,
\* false is 0), a float, a str, None for null; "absent" when the key is not there.
Json(kind, n) == [kind |-> kind, n |-> n]

\* data.get(key, default)
json_get(v, default) == IF v.kind = "absent" THEN Json("int", default) ELSE v

\* isinstance(v, int): bool is a subclass of int
isinstance_int(v) == v.kind \in {"int", "bool"}

\* not isinstance(v, int) or v < lo or v > hi
out_of_range(v, lo, hi) == ~isinstance_int(v) \/ v.n < lo \/ v.n > hi

DepthValues ==
    {Json("absent", 0), Json("int", -1), Json("int", 0), Json("int", 5), Json("int", 6),
     Json("bool", 1)}
WorkersValues ==
    {Json("absent", 0), Json("int", 0), Json("int", 1), Json("int", 16), Json("int", 17),
     Json("float", 4)}

\* The body shared by the two POST endpoints: project missing: 404; no pages: 400; no
\* page with a generated_image_path: 400; max_depth or max_workers refused: 400; else
\* the Task row (PENDING) is committed and the recursive task function is submitted;
\* an exception: 500
export_async(request, task_type, func, pr, max_depth, max_workers) ==
    /\ input' = [request |-> request, project_id |-> pr,
                 max_depth |-> max_depth, max_workers |-> max_workers]
    /\ IF pr \notin Projects
       THEN /\ response' = Reply(request, pr, 404, "Project not found")
            /\ UNCHANGED <<task, job, pc, local>>
       ELSE IF ProjectPages(pr) = {}
       THEN /\ response' = Reply(request, pr, 400, "No pages found for project")
            /\ UNCHANGED <<task, job, pc, local>>
       ELSE IF ImagePages(pr) = {}
       THEN /\ response' = Reply(request, pr, 400, "No generated images found for project")
            /\ UNCHANGED <<task, job, pc, local>>
       ELSE IF out_of_range(json_get(max_depth, 2), 0, 5)
       THEN /\ response' = Reply(request, pr, 400,
                                 "max_depth must be an integer between 0 and 5")
            /\ UNCHANGED <<task, job, pc, local>>
       ELSE IF out_of_range(json_get(max_workers, 4), 1, 16)
       THEN /\ response' = Reply(request, pr, 400,
                                 "max_workers must be an integer between 1 and 16")
            /\ UNCHANGED <<task, job, pc, local>>
       ELSE \E db \in CommitOutcomes :
               IF db = "ok"
               THEN /\ \E t \in Tasks : submit_task(t, task_type, func, pr, NoPage, FALSE, 0)
                    /\ response' = Reply(request, pr, 200, "Export task created")
               ELSE /\ response' = Reply(request, pr, 500, db)
                    /\ UNCHANGED <<task, job, pc, local>>
    /\ UNCHANGED <<page, versions, project, materials, exc, files, active_tasks, call,
                   result, future, manager, output, tmp_files, deleted_images>>

\* POST /api/projects/{project_id}/export/editable-pptx
export_editable_pptx(pr, max_depth, max_workers) ==
    export_async("export_editable_pptx", "EXPORT_EDITABLE_PPTX",
                 "export_editable_pptx_with_recursive_analysis_task",
                 pr, max_depth, max_workers)

\* POST /api/projects/{project_id}/export/editable-pptx-recursive
export_editable_pptx_recursive(pr, max_depth, max_workers) ==
    export_async("export_editable_pptx_recursive", "EXPORT_EDITABLE_PPTX_RECURSIVE",
                 "export_editable_pptx_with_recursive_analysis_task",
                 pr, max_depth, max_workers)

\* ------------------------------------------------------------------ SlideAgentTools
\* One toolkit instance, made for the larger project; the agent calls its tools one at
\* a time, while the tasks it launched run on the Task Manager's pool.
ToolProject == "proj_a"

\* self.max_concurrent_tasks = 4
max_concurrent_tasks == 4

\* the dict returned when the limit is reached: success False, the message that the
\* maximum of concurrent tasks is reached, the suggestion to use the sleep tool
AtCapacity == [success |-> FALSE, message |-> "max_concurrent_tasks_reached",
               suggestion |-> "use_sleep_tool"]

Failure(message) == [NoResult EXCEPT !.message = message]

\* task and task.status in ['PENDING', 'PROCESSING'] for a tracked entry
StillActive(task_info) ==
    /\ task_info.task_id \in Tasks
    /\ task[task_info.task_id].status \in {"PENDING", "PROCESSING"}

\* _check_task_limit: entries whose Task is gone or finished are dropped from
\* self.active_tasks; True when fewer than max_concurrent_tasks remain
check_task_limit_kept == SelectSeq(active_tasks, StillActive)

\* check_task_limit with <= for <
check_task_limit_inclusive == Len(check_task_limit_kept) <= max_concurrent_tasks

check_task_limit == Len(check_task_limit_kept) < max_concurrent_tasks

\* _add_task(task_id, task_type, page_id)
add_task(tracked, task_id, task_type, page_id) ==
    Append(tracked, [task_id |-> task_id, type |-> task_type, page_id |-> page_id,
                     status |-> "pending"])

\* tool_check that goes on whatever _check_task_limit returns
tool_check_unchecked(tool, pg) ==
    /\ call.at = "idle"
    /\ active_tasks' = check_task_limit_kept
    /\ call' = [tool |-> tool, page_id |-> pg, at |-> "checked"]
    /\ result' = NoResult
    /\ UNCHANGED <<task, page, versions, project, materials, job, pc, exc, local,
                   files, response, lib_vars>>

\* The opening of edit_page_image and regenerate_page_image: if not
\* self._check_task_limit(): return the at-capacity dict
tool_check(tool, pg) ==
    /\ call.at = "idle"
    /\ active_tasks' = check_task_limit_kept
    /\ IF check_task_limit
       THEN /\ call' = [tool |-> tool, page_id |-> pg, at |-> "checked"]
            /\ result' = NoResult
       ELSE /\ call' = NoCall
            /\ result' = AtCapacity
    /\ UNCHANGED <<task, page, versions, project, materials, job, pc, exc, local,
                   files, response, lib_vars>>

\* The rest of a tool call: the page must exist in the toolkit's project and carry
\* what the tool needs; then the Task row (PENDING) is committed, the task function is
\* submitted and the task is tracked.  An exception is caught and reported.
tool_launch(tool, task_type, func, type) ==
    /\ call.at = "checked"
    /\ call.tool = tool
    /\ call' = NoCall
    /\ LET pg == call.page_id
           missing == pg \notin Pages \/ page[pg].project_id # ToolProject
       IN  IF missing
           THEN /\ result' = Failure("page_not_found")
                /\ UNCHANGED <<task, job, pc, local, active_tasks>>
           ELSE IF tool = "edit_page_image" /\ page[pg].generated_image_path = NoPath
           THEN /\ result' = Failure("page_has_no_image")
                /\ UNCHANGED <<task, job, pc, local, active_tasks>>
           ELSE IF tool = "regenerate_page_image" /\ ~page[pg].description_content
           THEN /\ result' = Failure("page_has_no_description")
                /\ UNCHANGED <<task, job, pc, local, active_tasks>>
           ELSE \E db \in CommitOutcomes :
                   IF db = "ok"
                   THEN \E t \in Tasks :
                           /\ submit_task(t, task_type, func, ToolProject, pg, FALSE, 0)
                           /\ active_tasks' = add_task(active_tasks, t, type, pg)
                           /\ result' = [success |-> TRUE, message |-> "started",
                                         suggestion |-> ""]
                   ELSE /\ result' = Failure(db)
                        /\ UNCHANGED <<task, job, pc, local, active_tasks>>
    /\ UNCHANGED <<page, versions, project, materials, exc, files, response, lib_vars>>

edit_page_image_check(pg) == tool_check("edit_page_image", pg)

edit_page_image ==
    tool_launch("edit_page_image", "EDIT_PAGE_IMAGE", "edit_page_image_task", "edit_image")

regenerate_page_image_check(pg) == tool_check("regenerate_page_image", pg)

regenerate_page_image ==
    tool_launch("regenerate_page_image", "GENERATE_PAGE_IMAGE",
                "generate_single_page_image_task", "regenerate_image")

\* ------------------------------------------------------------------ specifications
\* The task function a worker thread runs for task t, one step of it
TaskStep(t) ==
    \/ generate_descriptions_task(t)
    \/ generate_images_task(t)
    \/ generate_single_page_image_task(t)
    \/ edit_page_image_task(t)
    \/ generate_material_image_task(t)
    \/ export_editable_pptx_task(t)
    \/ export_editable_pptx_with_recursive_analysis_task(t)

Ended(t) == pc[t] \in {"done", "escaped"}

\* Requests that reach a controller and end in submit_task
SubmitDescriptions(t, pr) ==
    \E n \in {Cardinality(pages_of(pr)), Cardinality(pages_of(pr)) + 1} :
        /\ submit_task(t, "GENERATE_DESCRIPTIONS", "generate_descriptions_task",
                       pr, NoPage, FALSE, n)
        /\ UNCHANGED front_vars

SubmitImages(t) ==
    \E n \in {Cardinality(pages_of("proj_a")) - 1, Cardinality(pages_of("proj_a"))} :
        /\ submit_task(t, "GENERATE_IMAGES", "generate_images_task",
                       "proj_a", NoPage, FALSE, n)
        /\ UNCHANGED front_vars

SubmitSingle(t) ==
    \E pg \in Pages \cup {NoPage} :
        /\ submit_task(t, "GENERATE_PAGE_IMAGE", "generate_single_page_image_task",
                       "proj_a", pg, FALSE, 0)
        /\ UNCHANGED front_vars

SubmitEdit(t) ==
    \E pg \in Pages \cup {NoPage}, tmp \in BOOLEAN :
        /\ submit_task(t, "EDIT_PAGE_IMAGE", "edit_page_image_task", "proj_a", pg, tmp, 0)
        /\ UNCHANGED front_vars

SubmitMaterial(t) ==
    \E tmp \in BOOLEAN :
        /\ submit_task(t, "GENERATE_MATERIAL_IMAGE", "generate_material_image_task",
                       "proj_a", NoPage, tmp, 0)
        /\ UNCHANGED front_vars

SubmitExport(t) ==
    \E pr \in {"proj_a", "proj_empty"} :
        /\ submit_task(t, "EXPORT_EDITABLE_PPTX", "export_editable_pptx_task",
                       pr, NoPage, FALSE, 0)
        /\ UNCHANGED front_vars

SubmitRecursive(t) ==
    \E pr \in {"proj_a", "proj_empty"} :
        /\ submit_task(t, "EXPORT_EDITABLE_PPTX_RECURSIVE",
                       "export_editable_pptx_with_recursive_analysis_task",
                       pr, NoPage, FALSE, 0)
        /\ UNCHANGED front_vars

SubmitAny ==
    \E t \in 1 .. AnyTasks :
        \/ SubmitDescriptions(t, "proj_a")
        \/ SubmitImages(t)
        \/ SubmitSingle(t)
        \/ SubmitEdit(t)
        \/ SubmitMaterial(t)
        \/ SubmitExport(t)
        \/ SubmitRecursive(t)

Run == \E t \in Tasks : TaskStep(t)

\* Spec: up to AnyTasks tasks of any kind, running concurrently on the pool
Next == SubmitAny \/ Run

Spec == Init /\ [][Next]_vars
\* SpecAgent: the agent's tool calls, one at a time, and the tasks they launch
AgentCall ==
    \/ \E pg \in Pages : edit_page_image_check(pg)
    \/ \E pg \in Pages : regenerate_page_image_check(pg)
    \/ edit_page_image
    \/ regenerate_page_image

\* threads of the executor that are inside a task function
Busy == {t \in Tasks : pc[t] \notin {"idle", "queued", "done", "escaped"}}

\* The executor's work queue is first in, first out: a queued function starts when a
\* thread is free and everything submitted before it has started.
AgentRun ==
    \E t \in Tasks :
        /\ pc[t] = "queued" =>
              /\ Cardinality(Busy) < AgentWorkers
              /\ \A u \in Tasks : u < t => pc[u] # "queued"
        /\ generate_single_page_image_task(t) \/ edit_page_image_task(t)

NextAgent == AgentCall \/ AgentRun

SpecAgent == Init /\ [][NextAgent]_vars

\* no task function is running
Quiet == \A u \in Tasks : pc[u] \in {"idle", "done", "escaped"}

\* SpecDescriptions: generate_descriptions_task, one run after the other
NextDescriptions ==
    \/ \E t \in 1 .. SeqRuns, pr \in {"proj_a", "proj_empty"} :
          Quiet /\ SubmitDescriptions(t, pr)
    \/ \E t \in Tasks : generate_descriptions_task(t)

SpecDescriptions == Init /\ [][NextDescriptions]_vars

\* ------------------------------------------------------------------ mask utilities
MaskSize == 3       \* widths and heights of mask images: 1 .. MaskSize
MaskBoxes == 2      \* bboxes handed to one call of create_mask_from_bboxes

\* Python's max and min of two integers
max(a, b) == IF a >= b THEN a ELSE b
min(a, b) == IF a <= b THEN a ELSE b

\* the default mask_color and background_color
White == <<255, 255, 255>>
Black == <<0, 0, 0>>

\* Image.new('RGB', image_size, background_color): a colour for every pixel (x, y) with
\* 0 <= x < width and 0 <= y < height
Image_new(image_size, color) ==
    [px \in (0 .. image_size[1] - 1) \X (0 .. image_size[2] - 1) |-> color]

\* ImageDraw.rectangle([x1, y1, x2, y2], fill): the pixels from (x1, y1) to (x2, y2),
\* both corners included, as far as they lie in the image
draw_rectangle(mask, x1, y1, x2, y2, fill) ==
    [px \in DOMAIN mask |->
        IF x1 <= px[1] /\ px[1] <= x2 /\ y1 <= px[2] /\ px[2] <= y2
        THEN fill ELSE mask[px]]

\* The three bbox formats: a tuple (x1, y1, x2, y2), a dict with x1, y1, x2, y2, a dict
\* with x, y, width, height
Formats == {"tuple", "corners", "xywh"}

bbox_in(format, box) ==
    CASE format = "tuple"   -> [format |-> "tuple", value |-> box]
      [] format = "corners" -> [format |-> "corners", x1 |-> box[1], y1 |-> box[2],
                                x2 |-> box[3], y2 |-> box[4]]
      [] format = "xywh"    -> [format |-> "xywh", x |-> box[1], y |-> box[2],
                                width |-> box[3] - box[1], height |-> box[4] - box[2]]

\* parse_bbox that reads width and height as the far corner
parse_bbox_far_corner(bbox) ==
    CASE bbox.format = "tuple"   -> bbox.value
      [] bbox.format = "corners" -> <<bbox.x1, bbox.y1, bbox.x2, bbox.y2>>
      [] bbox.format = "xywh"    -> <<bbox.x, bbox.y, bbox.width, bbox.height>>
      [] OTHER                   -> <<>>

\* create_mask_from_bboxes, the parsing of one bbox into x1, y1, x2, y2; <<>> for a
\* format that is not recognised (the bbox is skipped)
parse_bbox(bbox) ==
    CASE bbox.format = "tuple"   -> bbox.value
      [] bbox.format = "corners" -> <<bbox.x1, bbox.y1, bbox.x2, bbox.y2>>
      [] bbox.format = "xywh"    -> <<bbox.x, bbox.y, bbox.x + bbox.width,
                                     bbox.y + bbox.height>>
      [] OTHER                   -> <<>>

\* create_mask_from_bboxes, the body of the loop for one bbox: expansion or shrinking,
\* clamping into the image, the validity check, the rectangle
draw_bbox(mask, image_size, bbox, mask_color, expand_pixels) ==
    LET parsed == parse_bbox(bbox)
    IN  IF parsed = <<>> THEN mask
        ELSE
        LET shrink == 0 - expand_pixels
            ex1 == IF expand_pixels > 0 THEN max(0, parsed[1] - expand_pixels)
                   ELSE IF expand_pixels < 0 THEN parsed[1] + shrink ELSE parsed[1]
            ey1 == IF expand_pixels > 0 THEN max(0, parsed[2] - expand_pixels)
                   ELSE IF expand_pixels < 0 THEN parsed[2] + shrink ELSE parsed[2]
            ex2 == IF expand_pixels > 0 THEN min(image_size[1], parsed[3] + expand_pixels)
                   ELSE IF expand_pixels < 0 THEN parsed[3] - shrink ELSE parsed[3]
            ey2 == IF expand_pixels > 0 THEN min(image_size[2], parsed[4] + expand_pixels)
                   ELSE IF expand_pixels < 0 THEN parsed[4] - shrink ELSE parsed[4]
            x1 == max(0, min(ex1, image_size[1]))
            y1 == max(0, min(ey1, image_size[2]))
            x2 == max(0, min(ex2, image_size[1]))
            y2 == max(0, min(ey2, image_size[2]))
        IN  IF expand_pixels < 0 /\ (ex2 <= ex1 \/ ey2 <= ey1) THEN mask
            ELSE IF x2 <= x1 \/ y2 <= y1 THEN mask
            ELSE draw_rectangle(mask, x1, y1, x2, y2, mask_color)

RECURSIVE draw_bboxes(_, _, _, _, _)
draw_bboxes(mask, image_size, bboxes, mask_color, expand_pixels) ==
    IF bboxes = <<>> THEN mask
    ELSE draw_bboxes(draw_bbox(mask, image_size, Head(bboxes), mask_color, expand_pixels),
                     image_size, Tail(bboxes), mask_color, expand_pixels)

\* create_mask_from_bboxes(image_size, bboxes, mask_color, background_color,
\* expand_pixels)
create_mask_from_bboxes(image_size, bboxes, mask_color, background_color, expand_pixels) ==
    draw_bboxes(Image_new(image_size, background_color), image_size, bboxes, mask_color,
                expand_pixels)

\* the boxes (x1, y1, x2, y2) with 0 <= x1 < x2 <= width and 0 <= y1 < y2 <= height
BoxesWithin(image_size) ==
    {box \in (0 .. image_size[1]) \X (0 .. image_size[2]) \X
              (0 .. image_size[1]) \X (0 .. image_size[2]) :
        box[1] < box[3] /\ box[2] < box[4]}

\* sequences of at most n elements of S
SeqUpTo(S, n) == UNION {[1 .. k -> S] : k \in 0 .. n}

\* SpecMask: one call of create_mask_from_bboxes with the default colours; boxes are
\* the boxes handed in, bboxes the same boxes in a format each
call_create_mask_from_bboxes ==
    /\ output = NoValue
    /\ \E image_size \in (1 .. MaskSize) \X (1 .. MaskSize), expand_pixels \in {-1, 0, 1} :
       \E boxes \in SeqUpTo(BoxesWithin(image_size), MaskBoxes) :
       \E formats \in [DOMAIN boxes -> Formats] :
          LET bboxes == [i \in DOMAIN boxes |-> bbox_in(formats[i], boxes[i])]
          IN  /\ input' = [image_size |-> image_size, boxes |-> boxes, bboxes |-> bboxes,
                           expand_pixels |-> expand_pixels]
              /\ output' = create_mask_from_bboxes(image_size, bboxes, White, Black,
                                                   expand_pixels)
    /\ UNCHANGED <<task, page, versions, project, materials, job, pc, exc, local, files,
                   response, active_tasks, call, result, future, manager, tmp_files,
                   deleted_images>>

SpecMask == Init /\ [][call_create_mask_from_bboxes]_vars

\* ------------------------------------------------------------------ merging bboxes
MergeSize == 3      \* coordinates of the boxes handed to merge_overlapping_bboxes: 0 .. MergeSize
MergeBoxes == 3     \* boxes handed to one call of merge_overlapping_bboxes

\* merge_overlapping_bboxes, "convert to the standard format": a tuple of a dict with
\* x1, or of a dict with x; any other dict is left out; anything else is taken as a tuple
RECURSIVE normalize_bboxes(_)
normalize_bboxes(bboxes) ==
    IF bboxes = <<>> THEN <<>>
    ELSE LET bbox == Head(bboxes)
             rest == normalize_bboxes(Tail(bboxes))
         IN  CASE bbox.format = "corners" -> <<<<bbox.x1, bbox.y1, bbox.x2, bbox.y2>>>> \o rest
               [] bbox.format = "xywh"    -> <<<<bbox.x, bbox.y, bbox.x + bbox.width,
                                                bbox.y + bbox.height>>>> \o rest
               [] bbox.format = "tuple"   -> <<bbox.value>> \o rest
               [] OTHER                   -> rest

\* the condition "overlapping or adjacent" between the box grown so far and bbox2
overlapping_or_adjacent(box, bbox2, merge_threshold) ==
    /\ box[1] - merge_threshold <= bbox2[3]
    /\ bbox2[1] <= box[3] + merge_threshold
    /\ box[2] - merge_threshold <= bbox2[4]
    /\ bbox2[2] <= box[4] + merge_threshold

\* the inner loop, for j, bbox2 in enumerate(normalized_bboxes[i+1:], i+1): the box
\* grown from bbox1 and the indices used
RECURSIVE inner_loop(_, _, _, _, _)
inner_loop(box, normalized_bboxes, j, used, merge_threshold) ==
    IF j > Len(normalized_bboxes) THEN [box |-> box, used |-> used]
    ELSE IF j \in used
    THEN inner_loop(box, normalized_bboxes, j + 1, used, merge_threshold)
    ELSE LET bbox2 == normalized_bboxes[j]
         IN  IF overlapping_or_adjacent(box, bbox2, merge_threshold)
             THEN inner_loop(<<min(box[1], bbox2[1]), min(box[2], bbox2[2]),
                               max(box[3], bbox2[3]), max(box[4], bbox2[4])>>,
                             normalized_bboxes, j + 1, used \cup {j}, merge_threshold)
             ELSE inner_loop(box, normalized_bboxes, j + 1, used, merge_threshold)

\* the outer loop, for i, bbox1 in enumerate(normalized_bboxes)
RECURSIVE outer_loop(_, _, _, _, _, _)
outer_loop(normalized_bboxes, i, used, new_bboxes, merged, merge_threshold) ==
    IF i > Len(normalized_bboxes)
    THEN [normalized_bboxes |-> new_bboxes, merged |-> merged]
    ELSE IF i \in used
    THEN outer_loop(normalized_bboxes, i + 1, used, new_bboxes, merged, merge_threshold)
    ELSE LET grown == inner_loop(normalized_bboxes[i], normalized_bboxes, i + 1, used,
                                 merge_threshold)
         IN  outer_loop(normalized_bboxes, i + 1, grown.used \cup {i},
                        Append(new_bboxes, grown.box),
                        merged \/ grown.used # used, merge_threshold)

\* a pass that does not record that it merged
while_body_merged_unset(normalized_bboxes, merge_threshold) ==
    [outer_loop(normalized_bboxes, 1, {}, <<>>, FALSE, merge_threshold)
        EXCEPT !.merged = FALSE]

\* the body of "while merged": one pass over the list; the new list, and whether a
\* merge happened
while_body(normalized_bboxes, merge_threshold) ==
    outer_loop(normalized_bboxes, 1, {}, <<>>, FALSE, merge_threshold)

\* the boxes (x1, y1, x2, y2) with 0 <= x1 < x2 <= MergeSize, 0 <= y1 < y2 <= MergeSize
MergeInputs == BoxesWithin(<<MergeSize, MergeSize>>)

\* merge_overlapping_bboxes(bboxes, merge_threshold) up to the while loop
call_merge_overlapping_bboxes ==
    /\ output = NoValue
    /\ \E boxes \in SeqUpTo(MergeInputs, MergeBoxes), format \in Formats,
          merge_threshold \in {0, 1} :
          LET bboxes == [i \in DOMAIN boxes |-> bbox_in(format, boxes[i])]
          IN  /\ input' = [boxes |-> boxes, bboxes |-> bboxes,
                           merge_threshold |-> merge_threshold]
              /\ output' = IF bboxes = <<>>
                           THEN [normalized_bboxes |-> <<>>, merged |-> FALSE,
                                 returned |-> TRUE]
                           ELSE [normalized_bboxes |-> normalize_bboxes(bboxes),
                                 merged |-> TRUE, returned |-> FALSE]
    /\ UNCHANGED <<task, page, versions, project, materials, job, pc, exc, local, files,
                   response, active_tasks, call, result, future, manager, tmp_files,
                   deleted_images>>

\* while merged: a pass; the loop left, return normalized_bboxes
merge_while ==
    /\ output # NoValue
    /\ ~output.returned
    /\ output' = IF output.merged
                 THEN [returned |-> FALSE] @@
                      while_body(output.normalized_bboxes, input.merge_threshold)
                 ELSE [output EXCEPT !.returned = TRUE]
    /\ UNCHANGED <<task, page, versions, project, materials, job, pc, exc, local, files,
                   response, active_tasks, call, result, future, manager, input, tmp_files,
                   deleted_images>>

NextMerge == call_merge_overlapping_bboxes \/ merge_while

SpecMerge == Init /\ [][NextMerge]_vars

\* ------------------------------------------------------------------ coordinates
ScaleSize == 3      \* widths and heights of source_size and target_size: 1 .. ScaleSize
ScaleCoord == 3     \* coordinates of the bbox handed to scale_bbox: 0 .. ScaleCoord

\* int(x * scale) with scale = target / source: the product cut off towards zero. On
\* the sizes and coordinates used here the floating-point product is cut off to the
\* same integer as the exact one.
int_times_scale(x, target, source) ==
    IF x * target >= 0
    THEN (x * target) \div source
    ELSE 0 - ((0 - x * target) \div source)

\* scale_bbox with the scale taken the wrong way round, source over target
scale_bbox_inverted(bbox, source_size, target_size) ==
    IF Len(bbox) # 4 THEN bbox
    ELSE <<int_times_scale(bbox[1], source_size[1], target_size[1]),
           int_times_scale(bbox[2], source_size[2], target_size[2]),
           int_times_scale(bbox[3], source_size[1], target_size[1]),
           int_times_scale(bbox[4], source_size[2], target_size[2])>>

\* CoordinateMapper.scale_bbox(bbox, source_size, target_size)
scale_bbox(bbox, source_size, target_size) ==
    IF Len(bbox) # 4 THEN bbox
    ELSE <<int_times_scale(bbox[1], target_size[1], source_size[1]),
           int_times_scale(bbox[2], target_size[2], source_size[2]),
           int_times_scale(bbox[3], target_size[1], source_size[1]),
           int_times_scale(bbox[4], target_size[2], source_size[2])>>

Sizes == (1 .. ScaleSize) \X (1 .. ScaleSize)
Coords == 0 .. ScaleCoord

\* scale_bbox from source_size to target_size
call_scale_bbox ==
    /\ output = NoValue
    /\ \E bbox \in Coords \X Coords \X Coords \X Coords, source_size \in Sizes,
          target_size \in Sizes :
          /\ input' = [bbox |-> bbox, source_size |-> source_size,
                       target_size |-> target_size]
          /\ output' = [scaled |-> scale_bbox(bbox, source_size, target_size),
                        back |-> NoValue]
    /\ UNCHANGED <<task, page, versions, project, materials, job, pc, exc, local, files,
                   response, active_tasks, call, result, future, manager, tmp_files,
                   deleted_images>>

\* scale_bbox of the result, from target_size back to source_size
call_scale_bbox_back ==
    /\ output # NoValue
    /\ output.back = NoValue
    /\ output' = [output EXCEPT
                    !.back = scale_bbox(output.scaled, input.target_size, input.source_size)]
    /\ UNCHANGED <<task, page, versions, project, materials, job, pc, exc, local, files,
                   response, active_tasks, call, result, future, manager, input, tmp_files,
                   deleted_images>>

NextScale == call_scale_bbox \/ call_scale_bbox_back

SpecScale == Init /\ [][NextScale]_vars

\* ------------------------------------------------------------------ outlines
OutlineItems == 2   \* items of an outline handed to flatten_outline
GroupPages == 2     \* pages of one {part, pages} group

\* item["part"] = part on a copy of the page: the key is added, or its value replaced
with_part(page_with_part, part) ==
    [k \in DOMAIN page_with_part \cup {"part"} |->
        IF k = "part" THEN part ELSE page_with_part[k]]

\* the inner loop, for page in item["pages"]
RECURSIVE expand_part(_, _)
expand_part(pages, part) ==
    IF pages = <<>> THEN <<>>
    ELSE <<with_part(Head(pages), part)>> \o expand_part(Tail(pages), part)

\* flatten_outline that appends the pages of a part as they are
RECURSIVE flatten_outline_unlabelled(_)
flatten_outline_unlabelled(outline) ==
    IF outline = <<>> THEN <<>>
    ELSE LET item == Head(outline)
         IN  (IF "part" \in DOMAIN item /\ "pages" \in DOMAIN item
              THEN item.pages
              ELSE <<item>>) \o flatten_outline_unlabelled(Tail(outline))

\* AIService.flatten_outline(outline)
RECURSIVE flatten_outline(_)
flatten_outline(outline) ==
    IF outline = <<>> THEN <<>>
    ELSE LET item == Head(outline)
         IN  (IF "part" \in DOMAIN item /\ "pages" \in DOMAIN item
              THEN expand_part(item.pages, item.part)
              ELSE <<item>>) \o flatten_outline(Tail(outline))

\* pages of an outline: a title, and for some a part label of their own
OutlinePages ==
    [title : {"a", "b"}] \cup [title : {"a", "b"}, part : {"own"}]

\* items of an outline: direct pages and {part, pages} groups
OutlineGroups ==
    {[part |-> part, pages |-> pages] :
        part \in {"one", "two"},
        pages \in UNION {[1 .. k -> OutlinePages] : k \in 0 .. GroupPages}}

call_flatten_outline ==
    /\ output = NoValue
    /\ \E outline \in UNION {[1 .. k -> OutlinePages \cup OutlineGroups] :
                                k \in 0 .. OutlineItems} :
          /\ input' = [outline |-> outline]
          /\ output' = [pages |-> flatten_outline(outline)]
    /\ UNCHANGED <<task, page, versions, project, materials, job, pc, exc, local, files,
                   response, active_tasks, call, result, future, manager, tmp_files,
                   deleted_images>>

SpecOutline == Init /\ [][call_flatten_outline]_vars

\* ------------------------------------------------------------------ output file names
Stamps == 2         \* values of datetime.utcnow().strftime('%Y%m%d_%H%M%S')

\* A file name is the list of its parts, the last part its suffix (as in
\* export_filename).  What is at output_path: nothing, a file that open(path, 'a')
\* opens, or one for which it raises IOError / PermissionError.
FileAtPath == {"absent", "writable", "locked"}

\* if not filename.endswith('.pptx'): filename += '.pptx'
with_pptx(filename) ==
    IF filename[Len(filename)] = ".pptx" THEN filename ELSE Append(filename, ".pptx")

\* f"{base_name}_{timestamp}.pptx", base_name the name without its last suffix
\* (rsplit('.pptx', 1)[0] in the one task, rsplit('.', 1)[0] in the other: the same
\* for a name that ends with .pptx)
stamped(filename, timestamp) ==
    SubSeq(filename, 1, Len(filename) - 1) \o <<"_", timestamp, ".pptx">>

\* export_editable_pptx_task, lines 946-965
export_task_filename(filename, at_path, timestamp) ==
    IF at_path = "locked"
    THEN stamped(with_pptx(filename), timestamp)
    ELSE with_pptx(filename)

\* export_editable_pptx_with_recursive_analysis_task, lines 1122-1132
recursive_task_filename(filename, at_path, timestamp) ==
    IF at_path # "absent"
    THEN stamped(with_pptx(filename), timestamp)
    ELSE with_pptx(filename)

\* the filename argument of the two tasks
TaskFilenames ==
    {<<"deck">>, <<"deck", ".pptx">>, <<"deck", ".pdf">>, <<"deck", ".v2">>,
     <<"deck", ".v2", ".pptx">>, <<"deck", ".pptx", ".pptx">>}

\* a file name, what is at its path in the exports directory, and the time
choose_output_path ==
    /\ input = NoValue
    /\ \E filename \in TaskFilenames, at_path \in FileAtPath, timestamp \in 1 .. Stamps :
          input' = [filename |-> filename, at_path |-> at_path, timestamp |-> timestamp]
    /\ output' = [legacy |-> NoValue, recursive |-> NoValue]
    /\ UNCHANGED <<task, page, versions, project, materials, job, pc, exc, local, files,
                   response, active_tasks, call, result, future, manager, tmp_files,
                   deleted_images>>

call_export_task_filename ==
    /\ input # NoValue
    /\ output.legacy = NoValue
    /\ output' = [output EXCEPT !.legacy =
                    export_task_filename(input.filename, input.at_path, input.timestamp)]
    /\ UNCHANGED <<task, page, versions, project, materials, job, pc, exc, local, files,
                   response, active_tasks, call, result, future, manager, input, tmp_files,
                   deleted_images>>

call_recursive_task_filename ==
    /\ input # NoValue
    /\ output.recursive = NoValue
    /\ output' = [output EXCEPT !.recursive =
                    recursive_task_filename(input.filename, input.at_path, input.timestamp)]
    /\ UNCHANGED <<task, page, versions, project, materials, job, pc, exc, local, files,
                   response, active_tasks, call, result, future, manager, input, tmp_files,
                   deleted_images>>

NextFilename ==
    choose_output_path \/ call_export_task_filename \/ call_recursive_task_filename

SpecFilename == Init /\ [][NextFilename]_vars

\* ------------------------------------------------------------------ editable elements
SlideSize == 2      \* width and height of the slide image, in pixels
SlideDepth == 2     \* depth down to which an element has been analysed into children
SlideZoom == 2      \* a sub-image's file is up to SlideZoom times as large as it is shown

\* bboxes (x0, y0, x1, y1) with corners on the pixels of a w x h image
BoxesIn(w, h) ==
    {b \in (0 .. w) \X (0 .. h) \X (0 .. w) \X (0 .. h) : b[1] < b[3] /\ b[2] < b[4]}

\* bboxes on the slide that lie within the bbox shown
BoxesWithinBox(shown) ==
    {b \in BoxesIn(shown[3], shown[4]) : b[1] >= shown[1] /\ b[2] >= shown[2]}

\* CoordinateMapper.global_to_local of the image editability service: the bbox is
\* moved by the top-left corner of parent_bbox, where the sub-image is shown, and
\* scaled from the size it is shown at to the sub-image's own size
global_to_local(global_bbox, parent_bbox, local_image_size) ==
    LET w == parent_bbox[3] - parent_bbox[1]
        h == parent_bbox[4] - parent_bbox[2]
    IN  <<((global_bbox[1] - parent_bbox[1]) * local_image_size[1]) \div w,
          ((global_bbox[2] - parent_bbox[2]) * local_image_size[2]) \div h,
          ((global_bbox[3] - parent_bbox[1]) * local_image_size[1]) \div w,
          ((global_bbox[4] - parent_bbox[2]) * local_image_size[2]) \div h>>

\* EditableElement: bbox is relative to the image the element was found in,
\* bbox_global to the slide.  content: the text is not blank; image_path and
\* inpainted_background: "none", or whether the file is found.
Element(id, type, bbox, bbox_global, content, image_path, background, children) ==
    [element_id |-> id, element_type |-> type, bbox |-> bbox, bbox_global |-> bbox_global,
     content |-> content, image_path |-> image_path, inpainted_background |-> background,
     children |-> children]

\* The elements that the analysis of an image may return: the image is shown on the
\* slide at shown (the whole slide at depth 0), its file is zoom times as large.
RECURSIVE ElementsIn(_, _, _, _)
ElementsIn(shown, id, depth, in_table) ==
    UNION {
      LET w == (shown[3] - shown[1]) * zoom
          h == (shown[4] - shown[2]) * zoom
      IN  UNION {
            LET bbox == global_to_local(bbox_global, shown, <<w, h>>)
            IN  IF in_table
                THEN {Element(id, "table_cell", bbox, bbox_global, content, "none", "none", <<>>) :
                         content \in BOOLEAN}
                ELSE {Element(id, type, bbox, bbox_global, content, "none", "none", <<>>) :
                         type \in {"text", "title"}, content \in BOOLEAN}
                     \cup
                     {Element(id, type, bbox, bbox_global, FALSE, image_path, "none", <<>>) :
                         type \in {"image", "chart", "table"},
                         image_path \in {"found", "missing"}}
                     \cup
                     (IF depth < SlideDepth
                      THEN {Element(id, type, bbox, bbox_global, FALSE, "found", background,
                                    <<child>>) :
                               type \in {"figure"},
                               background \in {"exists", "missing"},
                               child \in ElementsIn(bbox_global, Append(id, 1), depth + 1, FALSE)}
                           \cup
                           {Element(id, "table", bbox, bbox_global, FALSE, "found", "exists",
                                    <<child>>) :
                               child \in ElementsIn(bbox_global, Append(id, 1), depth + 1, TRUE)}
                      ELSE {})
            : bbox_global \in BoxesWithinBox(shown)}
      : zoom \in IF depth = 1 THEN 1 .. SlideZoom ELSE {1}}

Shape(elem, kind, bbox) == [element_id |-> elem.element_id, shape |-> kind, bbox |-> bbox]

\* possible_paths: the image file is found, or a placeholder is added
image_or_placeholder(elem, bbox_list) ==
    IF elem.image_path = "none" THEN <<>>
    ELSE IF elem.image_path = "found" THEN <<Shape(elem, "image", bbox_list)>>
    ELSE <<Shape(elem, "placeholder", bbox_list)>>

\* ExportService._add_editable_elements_to_slide: the shapes added to the slide, in
\* order
RECURSIVE add_editable_elements_to_slide(_, _, _)
add_editable_elements_to_slide(elements, scale_x, scale_y) ==
    IF elements = <<>> THEN <<>>
    ELSE LET elem == Head(elements)
             elem_type == elem.element_type
             bbox_list == elem.bbox
             with_children ==
                 (IF elem.inpainted_background = "exists"
                  THEN <<Shape(elem, "image", bbox_list)>> ELSE <<>>)
                 \o add_editable_elements_to_slide(elem.children, scale_x, scale_y)
             added ==
                 IF elem_type \in {"text", "title"}
                 THEN IF elem.content THEN <<Shape(elem, "text", bbox_list)>> ELSE <<>>
                 ELSE IF elem_type = "table_cell"
                 THEN IF elem.content
                      THEN <<Shape(elem, "text",
                                   <<elem.bbox_global[1] * scale_x, elem.bbox_global[2] * scale_y,
                                     elem.bbox_global[3] * scale_x, elem.bbox_global[4] * scale_y>>)>>
                      ELSE <<>>
                 ELSE IF elem_type \in {"table", "image", "figure", "chart"}
                 THEN IF elem.children # <<>> /\ elem.inpainted_background # "none"
                      THEN with_children
                      ELSE image_or_placeholder(elem, bbox_list)
                 ELSE <<>>
         IN  added \o add_editable_elements_to_slide(Tail(elements), scale_x, scale_y)

\* create_editable_pptx_with_recursive_analysis, for one page: the elements of the
\* page's EditableImage are added with scale_x = scale_y = 1.0, depth = 0
call_add_editable_elements_to_slide ==
    /\ output = NoValue
    /\ \E elem \in ElementsIn(<<0, 0, SlideSize, SlideSize>>, <<1>>, 0, FALSE) :
          /\ input' = [elements |-> <<elem>>]
          /\ output' = [shapes |-> add_editable_elements_to_slide(<<elem>>, 1, 1)]
    /\ UNCHANGED <<task, page, versions, project, materials, job, pc, exc, local, files,
                   response, active_tasks, call, result, future, manager, tmp_files,
                   deleted_images>>

SpecSlide == Init /\ [][call_add_editable_elements_to_slide]_vars

\* ------------------------------------------------------------------ InpaintingService.create_mask_image
\* ImageDraw on an RGB image with an integer as fill: the integer is read as a packed
\* colour, red in its lowest byte
getink(color) == <<color % 256, (color \div 256) % 256, (color \div 65536) % 256>>

\* return create_mask_from_bboxes(image_size, bboxes, expand_pixels): the third
\* positional parameter of create_mask_from_bboxes is mask_color; background_color
\* and expand_pixels keep their defaults
create_mask_image(image_size, bboxes, expand_pixels) ==
    create_mask_from_bboxes(image_size, bboxes, getink(expand_pixels), Black, 0)

\* SpecStatic: one call of InpaintingService.create_mask_image, and the call of
\* create_mask_from_bboxes(image_size, bboxes, expand_pixels=expand_pixels) on the same
\* arguments
call_create_mask_image ==
    /\ output = NoValue
    /\ \E image_size \in (1 .. MaskSize) \X (1 .. MaskSize), expand_pixels \in {0, 1} :
       \E boxes \in SeqUpTo(BoxesWithin(image_size), MaskBoxes) :
       \E formats \in [DOMAIN boxes -> Formats] :
          LET bboxes == [i \in DOMAIN boxes |-> bbox_in(formats[i], boxes[i])]
          IN  /\ input' = [image_size |-> image_size, boxes |-> boxes, bboxes |-> bboxes,
                           expand_pixels |-> expand_pixels]
              /\ output' = [static |-> create_mask_image(image_size, bboxes, expand_pixels),
                            direct |-> create_mask_from_bboxes(image_size, bboxes, White,
                                                               Black, expand_pixels)]
    /\ UNCHANGED <<task, page, versions, project, materials, job, pc, exc, local, files,
                   response, active_tasks, call, result, future, manager, tmp_files,
                   deleted_images>>

SpecStatic == Init /\ [][call_create_mask_image]_vars

\* ------------------------------------------------------------------ the synchronous tools
UpdateContents == 2 \* description_content / outline_content dicts an update may carry
UpdateTimes == 2    \* values of datetime.utcnow()

\* SpecUpdate keeps more of a row than the other specifications: a Page row also has
\* description and outline_content (0: none, n: the n-th dict) and updated_at, a
\* Project row is [status, updated_at].
InitUpdate ==
    /\ \E done \in SUBSET pages_of(ToolProject) :
          page = [p \in Pages |->
                    [project_id |-> project_of(p),
                     status |-> IF p \in done THEN "COMPLETED"
                                ELSE IF p \in Described THEN "DESCRIPTION_GENERATED"
                                ELSE "PENDING",
                     description_content |-> p \in Described \cup done,
                     generated_image_path |-> IF p \in done
                                              THEN save_generated_image(p, 0)
                                              ELSE NoPath,
                     description |-> 0,
                     outline_content |-> 0,
                     updated_at |-> 0]]
    /\ project = [pr \in Projects |-> [status |-> "DRAFT", updated_at |-> 0]]
    /\ task = [t \in Tasks |-> NoTask]
    /\ versions = <<>>
    /\ materials = {}
    /\ job = [t \in Tasks |-> NoJob]
    /\ pc = [t \in Tasks |-> "idle"]
    /\ exc = [t \in Tasks |-> ""]
    /\ local = [t \in Tasks |-> NoLocal]
    /\ files = {}
    /\ response = NoResponse
    /\ active_tasks = <<>>
    /\ call = NoCall
    /\ result = NoResult
    /\ LibInit

\* Page.set_description_content(content) / Page.set_outline_content(content)
set_content(row, tool, content) ==
    IF tool = "update_page_description"
    THEN [row EXCEPT !.description = content, !.description_content = TRUE]
    ELSE [row EXCEPT !.outline_content = content]

\* tool_update without the test of page.project_id
tool_update_any_project(tool, pg, content) ==
    /\ input' = [tool |-> tool, page_id |-> pg, content |-> content]
    /\ IF pg \notin Pages
       THEN /\ result' = Failure("page_not_found")
            /\ UNCHANGED <<page, project>>
       ELSE \E db \in CommitOutcomes, now \in 1 .. UpdateTimes :
               IF db = "ok"
               THEN /\ page' = [page EXCEPT ![pg] =
                          [set_content(page[pg], tool, content) EXCEPT !.updated_at = now]]
                    /\ project' = [project EXCEPT ![ToolProject].updated_at = now]
                    /\ result' = [success |-> TRUE, message |-> "updated", suggestion |-> ""]
               ELSE /\ result' = Failure(db)
                    /\ UNCHANGED <<page, project>>
    /\ UNCHANGED <<task, versions, materials, job, pc, exc, local, files, response,
                   active_tasks, call, future, manager, output, tmp_files, deleted_images>>

\* update_page_description and update_page_outline: the page must exist in the
\* toolkit's project; the content is set, page.updated_at and project.updated_at are
\* set to utcnow(), and the session is committed.  An exception is caught and
\* reported; the session is dropped with the application context.
tool_update(tool, pg, content) ==
    /\ input' = [tool |-> tool, page_id |-> pg, content |-> content]
    /\ IF pg \notin Pages \/ page[pg].project_id # ToolProject
       THEN /\ result' = Failure("page_not_found")
            /\ UNCHANGED <<page, project>>
       ELSE \E db \in CommitOutcomes, now \in 1 .. UpdateTimes :
               IF db = "ok"
               THEN /\ page' = [page EXCEPT ![pg] =
                          [set_content(page[pg], tool, content) EXCEPT !.updated_at = now]]
                    /\ project' = [project EXCEPT ![ToolProject].updated_at = now]
                    /\ result' = [success |-> TRUE, message |-> "updated", suggestion |-> ""]
               ELSE /\ result' = Failure(db)
                    /\ UNCHANGED <<page, project>>
    /\ UNCHANGED <<task, versions, materials, job, pc, exc, local, files, response,
                   active_tasks, call, future, manager, output, tmp_files, deleted_images>>

update_page_description(pg, description_content) ==
    tool_update("update_page_description", pg, description_content)

update_page_outline(pg, outline_content) ==
    tool_update("update_page_outline", pg, outline_content)

NextUpdate ==
    \E pg \in Pages \cup {NoPage}, content \in 1 .. UpdateContents :
        update_page_description(pg, content) \/ update_page_outline(pg, content)

SpecUpdate == InitUpdate /\ [][NextUpdate]_vars

\* SpecBackground: one call of generate_clean_background_with_inpainting on a page
\* image, in any surroundings
call_generate_clean_background ==
    /\ output = NoValue
    /\ \E p \in Pages, env \in Surroundings :
          LET made == generate_clean_background_with_inpainting(
                          save_generated_image(p, 0), env, TempName("png", 0, p))
          IN  /\ input' = [original_image_path |-> save_generated_image(p, 0), env |-> env]
              /\ output' = made
              /\ tmp_files' = tmp_files \cup made.created
    /\ UNCHANGED <<task, page, versions, project, materials, job, pc, exc, local, files,
                   response, active_tasks, call, result, future, manager, deleted_images>>

SpecBackground == Init /\ [][call_generate_clean_background]_vars

\* SpecManager: calls of TaskManager.submit_task and the pool's worker threads, every
\* statement of the one interleaved with every statement of the other
NextManager ==
    \E t \in 1 .. ManagerTasks :
        \/ executor_submit(t)
        \/ store_future(t)
        \/ add_done_callback(t)
        \/ work_item_run(t)
        \/ set_result(t)
        \/ invoke_callbacks(t)

SpecManager == Init /\ [][NextManager]_vars

\* SpecProject: generate_descriptions_task and generate_images_task on one project, one
\* run after the other, in any order
NextProject ==
    \/ \E t \in 1 .. SeqRuns : Quiet /\ (SubmitDescriptions(t, "proj_a") \/ SubmitImages(t))
    \/ \E t \in Tasks : generate_descriptions_task(t) \/ generate_images_task(t)

SpecProject == Init /\ [][NextProject]_vars

\* SpecVersions: generate_single_page_image_task and edit_page_image_task, one run
\* after the other
NextVersions ==
    \/ \E t \in 1 .. SeqRuns : Quiet /\ (SubmitSingle(t) \/ SubmitEdit(t))
    \/ \E t \in Tasks : generate_single_page_image_task(t) \/ edit_page_image_task(t)

SpecVersions == Init /\ [][NextVersions]_vars

\* SpecOverlap: generate_single_page_image_task and edit_page_image_task, up to
\* OverlapRuns of them, on threads of the pool that run at the same time
NextOverlap ==
    \/ \E t \in 1 .. OverlapRuns : SubmitSingle(t) \/ SubmitEdit(t)
    \/ \E t \in Tasks : generate_single_page_image_task(t) \/ edit_page_image_task(t)

SpecOverlap == Init /\ [][NextOverlap]_vars

\* SpecThreads: tool calls of one toolkit instance made from ToolThreads threads, so
\* that a call may begin while another is under way.  Neither _check_task_limit nor
\* _add_task takes a lock; a call is the statements of lines 74-151 (265-338) in
\* order, and between any two of them the other thread may run.  call and result
\* are kept per thread.
Threads == 1 .. ToolThreads

InitThreads ==
    /\ DbInit
    /\ job = [t \in Tasks |-> NoJob]
    /\ pc = [t \in Tasks |-> "idle"]
    /\ exc = [t \in Tasks |-> ""]
    /\ local = [t \in Tasks |-> NoLocal]
    /\ files = {}
    /\ response = NoResponse
    /\ active_tasks = <<>>
    /\ call = [c \in Threads |-> NoCall]
    /\ result = [c \in Threads |-> NoResult]
    /\ LibInit

\* if not self._check_task_limit(): return the at-capacity dict
thread_check(c, tool, pg) ==
    /\ call[c].at = "idle"
    /\ active_tasks' = check_task_limit_kept
    /\ IF check_task_limit
       THEN /\ call' = [call EXCEPT ![c] = [tool |-> tool, page_id |-> pg, at |-> "checked"]]
            /\ result' = [result EXCEPT ![c] = NoResult]
       ELSE /\ call' = [call EXCEPT ![c] = NoCall]
            /\ result' = [result EXCEPT ![c] = AtCapacity]
    /\ UNCHANGED <<task, page, versions, project, materials, job, pc, exc, local,
                   files, response, lib_vars>>

\* the page checks, then task = Task(status='PENDING'); db.session.add(task);
\* db.session.commit()
thread_create(c) ==
    /\ call[c].at = "checked"
    /\ LET pg == call[c].page_id
           tool == call[c].tool
           missing == pg \notin Pages \/ page[pg].project_id # ToolProject
           Fail(message) ==
               /\ call' = [call EXCEPT ![c] = NoCall]
               /\ result' = [result EXCEPT ![c] = Failure(message)]
               /\ UNCHANGED task
       IN  IF missing THEN Fail("page_not_found")
           ELSE IF tool = "edit_page_image" /\ page[pg].generated_image_path = NoPath
           THEN Fail("page_has_no_image")
           ELSE IF tool = "regenerate_page_image" /\ ~page[pg].description_content
           THEN Fail("page_has_no_description")
           ELSE \E db \in CommitOutcomes :
                   IF db = "ok"
                   THEN \E t \in Tasks :
                           /\ task[t].status = "NONE"
                           /\ \A u \in Tasks : u < t => task[u].status # "NONE"
                           /\ task' = [task EXCEPT ![t] =
                                 [NoTask EXCEPT
                                    !.status = "PENDING",
                                    !.task_type = IF tool = "edit_page_image"
                                                  THEN "EDIT_PAGE_IMAGE"
                                                  ELSE "GENERATE_PAGE_IMAGE"]]
                           /\ call' = [call EXCEPT ![c] =
                                 [tool |-> tool, page_id |-> pg, at |-> "created",
                                  task_id |-> t]]
                           /\ UNCHANGED result
                   ELSE Fail(db)
    /\ UNCHANGED <<page, versions, project, materials, job, pc, exc, local, active_tasks,
                   files, response, lib_vars>>

\* task_manager.submit_task(task_id, edit_page_image_task | generate_single_page_image_task, ...)
thread_submit(c) ==
    /\ call[c].at = "created"
    /\ LET t == call[c].task_id
       IN  /\ job' = [job EXCEPT ![t] =
                 [func |-> IF call[c].tool = "edit_page_image"
                           THEN "edit_page_image_task"
                           ELSE "generate_single_page_image_task",
                  project_id |-> ToolProject, page_id |-> call[c].page_id,
                  temp_dir |-> FALSE, outline_len |-> 0]]
           /\ pc' = [pc EXCEPT ![t] = "queued"]
    /\ call' = [call EXCEPT ![c].at = "submitted"]
    /\ UNCHANGED <<task, page, versions, project, materials, exc, local, active_tasks,
                   result, files, response, lib_vars>>

\* self._add_task(task_id, 'edit_image' | 'regenerate_image', page_id); return
thread_track(c) ==
    /\ call[c].at = "submitted"
    /\ active_tasks' = add_task(active_tasks, call[c].task_id,
                                IF call[c].tool = "edit_page_image"
                                THEN "edit_image" ELSE "regenerate_image",
                                call[c].page_id)
    /\ call' = [call EXCEPT ![c] = NoCall]
    /\ result' = [result EXCEPT ![c] = [success |-> TRUE, message |-> "started",
                                        suggestion |-> ""]]
    /\ UNCHANGED <<task, page, versions, project, materials, job, pc, exc, local,
                   files, response, lib_vars>>

\* the pages the threads ask for: one of the toolkit's project, one of another
ThreadPages == {1, MaxPages}

ThreadCall ==
    \E c \in Threads :
        \/ \E pg \in ThreadPages : thread_check(c, "edit_page_image", pg)
        \/ \E pg \in ThreadPages : thread_check(c, "regenerate_page_image", pg)
        \/ thread_create(c)
        \/ thread_submit(c)
        \/ thread_track(c)

\* the pool is shared with the other tasks of the application: its threads get to
\* the first ThreadRuns tasks of the instance, AgentWorkers of them at a time
ThreadRun ==
    \E t \in 1 .. ThreadRuns :
        /\ pc[t] = "queued" =>
              /\ Cardinality(Busy) < AgentWorkers
              /\ \A u \in Tasks : u < t => pc[u] # "queued"
        /\ generate_single_page_image_task(t) \/ edit_page_image_task(t)

NextThreads == ThreadCall \/ ThreadRun

SpecThreads == InitThreads /\ [][NextThreads]_vars

\* SpecExport: the two synchronous exports, over every database that runs of
\* generate_images_task leave behind: each page of the larger project with or without
\* a generated image
InitExport ==
    /\ \E done \in SUBSET pages_of("proj_a") :
          page = [p \in Pages |->
                    [project_id |-> project_of(p),
                     status |-> IF p \in done THEN "COMPLETED"
                                ELSE IF p \in Described THEN "DESCRIPTION_GENERATED"
                                ELSE "PENDING",
                     description_content |-> p \in Described \cup done,
                     generated_image_path |-> IF p \in done
                                              THEN save_generated_image(p, 0)
                                              ELSE NoPath]]
    /\ task = [t \in Tasks |-> NoTask]
    /\ versions = <<>>
    /\ project = [pr \in Projects |-> "DRAFT"]
    /\ materials = {}
    /\ job = [t \in Tasks |-> NoJob]
    /\ pc = [t \in Tasks |-> "idle"]
    /\ exc = [t \in Tasks |-> ""]
    /\ local = [t \in Tasks |-> NoLocal]
    /\ files = {}
    /\ response = NoResponse
    /\ active_tasks = <<>>
    /\ call = NoCall
    /\ result = NoResult
    /\ LibInit

NextExport ==
    \E pr \in Projects \cup {"proj_missing"}, requested \in RequestedNames :
        export_pptx(pr, requested) \/ export_pdf(pr, requested)

SpecExport == InitExport /\ [][NextExport]_vars

\* SpecLegacy: export_editable_pptx_task, one run after the other, over the databases
\* of SpecExport
NextLegacy ==
    \/ \E t \in 1 .. SeqRuns : Quiet /\ SubmitExport(t)
    \/ \E t \in Tasks : export_editable_pptx_task(t)

SpecLegacy == InitExport /\ [][NextLegacy]_vars

\* SpecAsync: the two POST export endpoints and the tasks they submit, over the
\* databases of SpecExport; a request is served while no export task is running
Created == {t \in Tasks : task[t].status # "NONE"}

AsyncRequest ==
    /\ Cardinality(Created) < AsyncExports
    /\ Quiet
    /\ \E pr \in {"proj_a", "proj_empty", "proj_missing"}, max_depth \in DepthValues,
          max_workers \in WorkersValues :
            \/ export_editable_pptx(pr, max_depth, max_workers)
            \/ export_editable_pptx_recursive(pr, max_depth, max_workers)

NextAsync ==
    \/ AsyncRequest
    \/ \E t \in Tasks : export_editable_pptx_with_recursive_analysis_task(t)

SpecAsync == InitExport /\ [][NextAsync]_vars

\* SpecFair: the same behaviours, with every worker thread scheduled fairly and every
\* external call returning or raising: a task function that can take a step takes one
SpecFair == Spec /\ \A t \in Tasks : WF_vars(TaskStep(t))

\* ------------------------------------------------------------------ task lifecycle
PageTasks == {"generate_single_page_image_task", "edit_page_image_task"}

\* C1: inside a worker no Task goes from PENDING directly to COMPLETED or FAILED: its
\* status is PROCESSING first, in every task function.
C1_ProcessingBeforeTerminal ==
    [][\A t \in Tasks :
          (pc[t] # "idle" /\ task[t].status = "PENDING") => task'[t].status \notin Terminal]_vars

\* C1: the recursive export has finished its work and its Task row is still PENDING
C1_RecursivePendingAtEnd ==
    \E t \in Tasks :
        /\ job[t].func = "export_editable_pptx_with_recursive_analysis_task"
        /\ pc[t] = "complete"
        /\ task[t].status = "PENDING"

\* C2: when the try body of a task function raised, the function ends with the Task
\* FAILED, error_message = str(e) and completed_at set, and for the two page tasks with
\* the Page FAILED as well.
C2_ExceptionRecorded ==
    [][\A t \in Tasks :
          (exc[t] # "" /\ ~Ended(t) /\ Ended(t)') =>
              /\ task'[t].status = "FAILED"
              /\ task'[t].error_message = exc[t]
              /\ task'[t].completed_at
              /\ (job[t].func \in PageTasks /\ job[t].page_id \in Pages) =>
                     page'[job[t].page_id].status = "FAILED"]_vars

\* C2: edit_page_image_task has left its except handler with the Task still PROCESSING
C2_EditEscaped ==
    \E t \in Tasks :
        /\ job[t].func = "edit_page_image_task"
        /\ pc[t] = "escaped"
        /\ exc[t] # ""
        /\ task[t].status = "PROCESSING"

\* C3: COMPLETED and FAILED are terminal: no step of any task function changes the
\* status of a Task that is COMPLETED or FAILED.
C3_TerminalStays ==
    [][\A t \in Tasks :
          task[t].status \in Terminal => task'[t].status = task[t].status]_vars

\* C3: a fan-out task whose Task row is COMPLETED is in its except handler
C3_CompletedInHandler ==
    \E t \in Tasks : task[t].status = "COMPLETED" /\ pc[t] = "handler"

\* C4: under fair scheduling every submitted task whose Task row exists eventually
\* reaches COMPLETED or FAILED.
C4_EventuallyTerminal ==
    \A t \in Tasks : (task[t].status = "PENDING") ~> (task[t].status \in Terminal)

\* C4: a task function has returned and its Task row is neither COMPLETED nor FAILED
C4_ReturnedUnrecorded ==
    \E t \in Tasks : Ended(t) /\ task[t].status \notin Terminal \cup {"NONE"}

\* ------------------------------------------------------------------ fan-out outcome
\* C5: a run of generate_descriptions_task over the N pages of its project, K of whose
\* per-page generations fail, that raises nothing else ends with the Task COMPLETED,
\* progress total = N, completed = N - K, failed = K, the failed pages FAILED and the
\* others DESCRIPTION_GENERATED, the project DESCRIPTIONS_GENERATED when K = 0; and the
\* project's status is written only by a run with K = 0.
C5_DescriptionsOutcome ==
    [][\A t \in Tasks :
          job[t].func = "generate_descriptions_task" =>
              LET pr == job[t].project_id
                  N == Cardinality(pages_of(pr))
                  K == Cardinality(local[t].failed_pages)
              IN  /\ (~Ended(t) /\ Ended(t)' /\ exc[t] = "") =>
                         /\ task'[t].status = "COMPLETED"
                         /\ task'[t].progress =
                                [total |-> N, completed |-> N - K, failed |-> K]
                         /\ \A p \in pages_of(pr) :
                                page'[p].status = IF p \in local[t].failed_pages
                                                  THEN "FAILED"
                                                  ELSE "DESCRIPTION_GENERATED"
                         /\ K = 0 => project'[pr] = "DESCRIPTIONS_GENERATED"
                         /\ K > 0 => project'[pr] = project[pr]
                  /\ (pc[t] \notin {"idle", "queued", "done"} /\ project'[pr] # project[pr]) =>
                         /\ K = 0
                         /\ local[t].waiting = {}
                         /\ project'[pr] = "DESCRIPTIONS_GENERATED"]_vars

\* C5: a run over two or more pages has ended COMPLETED with some pages failed and some
\* described, and its project is still a draft
C5_SomeFailed ==
    \E t \in Tasks :
        /\ job[t].func = "generate_descriptions_task"
        /\ pc[t] = "done"
        /\ task[t].status = "COMPLETED"
        /\ task[t].progress.failed > 0
        /\ task[t].progress.completed > 0
        /\ project[job[t].project_id] = "DRAFT"

\* ------------------------------------------------------------------ image versions
Successes(p) ==
    {t \in Tasks : /\ job[t].func \in PageTasks
                   /\ job[t].page_id = p
                   /\ task[t].status = "COMPLETED"}

Current(p) == {i \in VersionsOf(p) : versions[i].is_current}

\* C6: after M > 0 successful, non-overlapping runs of generate_single_page_image_task
\* or edit_page_image_task on a page that started without versions, exactly one version
\* of the page is current, its version_number is M and the page's generated_image_path
\* is that version's image_path.
C6_OneCurrentVersion ==
    \A p \in Pages :
        LET M == Cardinality(Successes(p))
        IN  M > 0 =>
               /\ Cardinality(Current(p)) = 1
               /\ \A i \in Current(p) :
                      /\ versions[i].version_number = M
                      /\ page[p].generated_image_path = versions[i].image_path

\* C6: a page has had two or more successful runs, an edit among them
C6_SeveralRuns ==
    \E p \in Pages :
        /\ Cardinality(Successes(p)) >= 2
        /\ \E t \in Successes(p) : job[t].func = "edit_page_image_task"
        /\ Cardinality(VersionsOf(p)) = Cardinality(Successes(p))

\* C7: a page whose generated_image_path is present has a version flagged is_current
\* whose image_path is that path, in every state that runs of generate_images_task,
\* generate_single_page_image_task and edit_page_image_task reach.
C7_PathHasCurrentVersion ==
    \A p \in Pages :
        page[p].generated_image_path # NoPath =>
            \E i \in VersionsOf(p) :
                /\ versions[i].is_current
                /\ versions[i].image_path = page[p].generated_image_path

\* C7: generate_images_task has completed a page and the page has no version at all
C7_ImageWithoutVersion ==
    \E p \in Pages :
        /\ page[p].status = "COMPLETED"
        /\ page[p].generated_image_path # NoPath
        /\ VersionsOf(p) = {}

\* ------------------------------------------------------------------ the agent's limit
\* tasks the toolkit launched that are PENDING or PROCESSING
InFlight ==
    {t \in Tasks : job[t].func # "none" /\ task[t].status \in {"PENDING", "PROCESSING"}}

\* tracked entries whose Task is PENDING or PROCESSING
TrackedInFlight ==
    {i \in 1 .. Len(active_tasks) :
        task[active_tasks[i].task_id].status \in {"PENDING", "PROCESSING"}}

\* C8: with tool calls made one at a time and interleaved in any way with the steps of
\* the tasks they launched, the tasks of the instance that are PENDING or PROCESSING
\* never number more than 4.
C8_AtMostFourInFlight == Cardinality(InFlight) <= max_concurrent_tasks

\* C8: four tasks are in flight, admitted after an earlier task of the instance finished
C8_FourInFlightAgain ==
    /\ Cardinality(InFlight) = max_concurrent_tasks
    /\ \E t \in Tasks : task[t].status \in Terminal

\* C9: a tool call made while the instance tracks 4 tasks that are PENDING or
\* PROCESSING returns success = false with the at-capacity message and the sleep
\* suggestion, creates no Task row, submits nothing and leaves the tracked tasks as
\* they were.
C9_AtCapacityRefused ==
    [][(/\ call.at = "idle"
        /\ Cardinality(TrackedInFlight) = max_concurrent_tasks
        /\ <<active_tasks, call, result>>' # <<active_tasks, call, result>>) =>
           /\ result' = AtCapacity
           /\ ~result'.success
           /\ call' = NoCall
           /\ active_tasks' = active_tasks
           /\ task' = task
           /\ job' = job
           /\ pc' = pc]_vars

\* C9: a call was refused while four tracked tasks were in flight
C9_RefusedAtFour ==
    /\ Cardinality(TrackedInFlight) = max_concurrent_tasks
    /\ call = NoCall
    /\ result = AtCapacity

\* ------------------------------------------------------------------ synchronous exports
\* the project has no page, or none of its pages carries a generated_image_path
NoImages(pr) ==
    \A p \in Pages : page[p].project_id = pr => page[p].generated_image_path = NoPath

\* C10: GET export/pptx and GET export/pdf for an existing project without pages, or
\* whose pages all lack a generated_image_path, reply 400, create no Task row and write
\* no export file.
C10_ExportRefused ==
    [][/\ (/\ response' # response
           /\ response'.project_id \in Projects
           /\ NoImages(response'.project_id)) =>
              /\ response'.status = 400
              /\ task' = task
              /\ files' = files
       /\ \A f \in files' \ files : ~NoImages(f.project_id)]_vars

\* C10: export/pdf was refused with 400 for a project whose pages exist and carry no
\* image, in a database where another project has an image and an exported file
C10_Refused ==
    /\ response.status = 400
    /\ response.request = "export_pdf"
    /\ response.project_id = "proj_b"
    /\ pages_of("proj_b") # {}
    /\ NoImages("proj_b")
    /\ files # {}

\* ------------------------------------------------------------------ asynchronous export requests
\* the step is a request served by the export controller
Served == <<input, response, Created>>' # <<input, response, Created>>

\* the value is an integer of lo..hi (a missing key stands for its default)
IntegerIn(v, default, lo, hi) ==
    LET given == json_get(v, default) IN given.kind = "int" /\ given.n \in lo .. hi

\* C11: POST export/editable-pptx-recursive for an existing project replies 400, creates
\* no Task row and submits nothing when max_depth is not an integer of 0..5 or
\* max_workers is not an integer of 1..16; for values in range, on a project with a
\* generated image, it creates exactly one Task row in PENDING and submits it once
\* (unless the commit of the row fails).
C11_RecursiveValidation ==
    [][(/\ Served
        /\ input'.request = "export_editable_pptx_recursive"
        /\ input'.project_id \in Projects) =>
           IF ~(/\ IntegerIn(input'.max_depth, 2, 0, 5)
                /\ IntegerIn(input'.max_workers, 4, 1, 16))
           THEN /\ response'.status = 400
                /\ task' = task
                /\ job' = job
                /\ pc' = pc
           ELSE (ImagePages(input'.project_id) # {} /\ response'.status # 500) =>
                   \E t \in Tasks \ Created :
                      /\ Created' = Created \cup {t}
                      /\ task'[t].status = "PENDING"
                      /\ task'[t].task_type = "EXPORT_EDITABLE_PPTX_RECURSIVE"
                      /\ pc'[t] = "queued"
                      /\ job'[t].func # "none"
                      /\ \A u \in Tasks \ {t} :
                            task'[u] = task[u] /\ job'[u] = job[u] /\ pc'[u] = pc[u]]_vars

\* C11: the recursive endpoint accepted max_depth = true and created a Task row
C11_BooleanAccepted ==
    /\ input # NoValue
    /\ input.request = "export_editable_pptx_recursive"
    /\ input.max_depth.kind = "bool"
    /\ response.status = 200
    /\ \E t \in Created : task[t].task_type = "EXPORT_EDITABLE_PPTX_RECURSIVE"

\* the worker thread has entered the task function submitted for the task
Executing(t) == pc[t] \notin {"idle", "queued"}

\* C17: a Task of type EXPORT_EDITABLE_PPTX is executed by export_editable_pptx_task,
\* and export_editable_pptx_with_recursive_analysis_task executes only Tasks of type
\* EXPORT_EDITABLE_PPTX_RECURSIVE.
C17_LegacyRunsLegacy ==
    \A t \in Tasks :
        Executing(t) =>
           /\ task[t].task_type = "EXPORT_EDITABLE_PPTX" =>
                 job[t].func = "export_editable_pptx_task"
           /\ job[t].func = "export_editable_pptx_with_recursive_analysis_task" =>
                 task[t].task_type = "EXPORT_EDITABLE_PPTX_RECURSIVE"

\* C17: a Task of type EXPORT_EDITABLE_PPTX, created by POST export/editable-pptx, was
\* completed by the recursive-analysis task function
C17_LegacyRunByRecursive ==
    /\ input # NoValue
    /\ input.request = "export_editable_pptx"
    /\ \E t \in Tasks :
          /\ task[t].task_type = "EXPORT_EDITABLE_PPTX"
          /\ task[t].status = "COMPLETED"
          /\ job[t].func = "export_editable_pptx_with_recursive_analysis_task"

\* ------------------------------------------------------------------ project status
\* the order in which a project's status is meant to advance
StatusOrder == <<"DRAFT", "OUTLINE_GENERATED", "DESCRIPTIONS_GENERATED", "COMPLETED">>
Rank(status) == CHOOSE i \in 1 .. Len(StatusOrder) : StatusOrder[i] = status

\* C12: under any sequence of description and image generation tasks, a project's
\* status never moves to one earlier in DRAFT, OUTLINE_GENERATED,
\* DESCRIPTIONS_GENERATED, COMPLETED than its current one (FAILED apart).
C12_ProjectForward ==
    [][\A pr \in Projects :
          project'[pr] = "FAILED" \/ Rank(project'[pr]) >= Rank(project[pr])]_vars

\* C12: images were generated without a failure (project COMPLETED), and a later run of
\* generate_descriptions_task left the project in DESCRIPTIONS_GENERATED
C12_BackToDescriptions ==
    \E t1, t2 \in Tasks :
        /\ t1 < t2
        /\ job[t1].func = "generate_images_task"
        /\ job[t2].func = "generate_descriptions_task"
        /\ job[t1].project_id = job[t2].project_id
        /\ task[t1].status = "COMPLETED" /\ task[t1].progress.failed = 0
        /\ task[t2].status = "COMPLETED" /\ task[t2].progress.failed = 0
        /\ pc[t1] = "done" /\ pc[t2] = "done"
        /\ project[job[t2].project_id] = "DESCRIPTIONS_GENERATED"

\* ------------------------------------------------------------------ the active set
\* the function has finished and both threads are through with the Future
Settled(t) ==
    /\ future[t].state = "FINISHED"
    /\ future[t].invoked
    /\ future[t].at = "returned"

\* C13: in every interleaving of submit_task with the worker thread, once the
\* function has finished and its completion callback has run, is_task_active is
\* false; the callback runs exactly once, also when the function finishes before the
\* Future is stored or the callback attached, so no finished task stays in the set.
C13_FinishedNotActive ==
    \A t \in Tasks :
        /\ future[t].ran > 0 => future[t].state = "FINISHED" /\ ~is_task_active(t)
        /\ Settled(t) => future[t].ran = 1 /\ ~is_task_active(t)

\* C13: a function raised before submit_task had stored its Future; the callback has
\* run and the entry is gone, while another task is still in the active set
C13_FinishedBeforeStored ==
    \E t, u \in Tasks :
        /\ Settled(t)
        /\ future[t].outcome = "raised"
        /\ future[t].callbacks = 0
        /\ future[t].ran = 1
        /\ ~is_task_active(t)
        /\ is_task_active(u)

\* ------------------------------------------------------------------ legacy export
\* temporary files that a task created and that still exist
LeftBehind(t) == {f \in tmp_files : f.task = t}

C16_NoCredentialsNotFatal ==
    [][\A t \in Tasks :
          job[t].func = "export_editable_pptx_task" =>
             /\ (/\ pc[t] = "backgrounds"
                 /\ local'[t].config \in {"absent", "empty"}) =>
                    /\ pc'[t] \in {"pptx", "handler"}
                    /\ pc'[t] = "handler" => exc'[t] = "db_error"
                    /\ ~local'[t].use_inpainting
             /\ (/\ pc[t] = "pptx"
                 /\ local[t].config \in {"absent", "empty"}
                 /\ task'[t].status = "COMPLETED") =>
                    task'[t].progress.used_inpainting = FALSE]_vars

\* C16: an export failed at its background step with the AttributeError raised by
\* reading the credentials from the Config class
C16_FailedOnCredentials ==
    \E t \in Tasks :
        /\ job[t].func = "export_editable_pptx_task"
        /\ local[t].config = "absent"
        /\ task[t].status = "FAILED"
        /\ task[t].error_message = "AttributeError: VOLCENGINE_ACCESS_KEY"

\* ------------------------------------------------------------------ one clean background
\* the conditions under which the original image is to come back: inpainting disabled,
\* credentials not configured, the service not importable, no valid bbox, the
\* inpainting call failed
FallsBack(env) ==
    \/ ~env.use_inpainting
    \/ env.config # "set"
    \/ ~env.import_ok
    \/ env.elements # "valid"
    \/ env.inpaint # "image"

\* the call did not raise, and it returned a path
NeverRaisesNorAbsent == ~output.raised /\ ~output.absent

StrictlyInside(px, box) ==
    box[1] < px[1] /\ px[1] < box[3] /\ box[2] < px[2] /\ px[2] < box[4]

StrictlyOutside(px, box) ==
    px[1] < box[1] \/ px[1] > box[3] \/ px[2] < box[2] \/ px[2] > box[4]

\* the boxes of the call, all in one format
AllIn(format) == [i \in DOMAIN input.boxes |-> bbox_in(format, input.boxes[i])]

\* C18: for boxes within the image and expand_pixels = 0, create_mask_from_bboxes
\* returns an image of the given size in which every pixel strictly inside some box has
\* the mask colour and every pixel strictly outside all boxes the background colour,
\* and the three formats of the same boxes give the same mask.
C18_MaskOfBoxes ==
    (output # NoValue /\ input.expand_pixels = 0) =>
        /\ DOMAIN output = (0 .. input.image_size[1] - 1) \X (0 .. input.image_size[2] - 1)
        /\ \A px \in DOMAIN output :
              /\ (\E i \in DOMAIN input.boxes : StrictlyInside(px, input.boxes[i])) =>
                    output[px] = White
              /\ (\A i \in DOMAIN input.boxes : StrictlyOutside(px, input.boxes[i])) =>
                    output[px] = Black
        /\ \A format \in Formats :
              create_mask_from_bboxes(input.image_size, AllIn(format), White, Black, 0)
                  = output

\* C18: a mask of two boxes in different formats, one of them a dict with width and
\* height, with a pixel strictly inside a box and a pixel strictly outside both
C18_TwoFormats ==
    /\ output # NoValue
    /\ input.expand_pixels = 0
    /\ Len(input.bboxes) = 2
    /\ input.bboxes[1].format = "xywh"
    /\ input.bboxes[2].format = "tuple"
    /\ input.boxes[1][1] > 0
    /\ \E px \in DOMAIN output : StrictlyInside(px, input.boxes[1]) /\ output[px] = White
    /\ \E px \in DOMAIN output :
          /\ \A i \in DOMAIN input.boxes : StrictlyOutside(px, input.boxes[i])
          /\ output[px] = Black

\* ------------------------------------------------------------------ merged bboxes
\* the distance between two boxes along one axis (0 or less when they touch or overlap)
Gap(a1, a2, b1, b2) == max(a1, b1) - min(a2, b2)

\* the extents of the two boxes, one of them widened by the threshold on every side,
\* intersect on both axes
Near(a, b, merge_threshold) ==
    /\ Gap(a[1], a[3], b[1], b[3]) <= merge_threshold
    /\ Gap(a[2], a[4], b[2], b[4]) <= merge_threshold

Contains(a, b) == a[1] <= b[1] /\ a[2] <= b[2] /\ b[3] <= a[3] /\ b[4] <= a[4]

BoundingUnion(a, b) ==
    <<min(a[1], b[1]), min(a[2], b[2]), max(a[3], b[3]), max(a[4], b[4])>>

MergeCalled == output # NoValue
MergeReturned == output # NoValue /\ output.returned

MergePostcondition ==
    LET given == input.boxes
        merged == output.normalized_bboxes
        thr == input.merge_threshold
    IN  /\ \A i, j \in DOMAIN merged : i < j => ~Near(merged[i], merged[j], thr)
        /\ \A i \in DOMAIN given : \E k \in DOMAIN merged : Contains(merged[k], given[i])
        /\ (Len(given) = 2 /\ Near(given[1], given[2], thr)) =>
              merged = <<BoundingUnion(given[1], given[2])>>
        /\ (Len(given) = 2 /\ ~Near(given[1], given[2], thr)) => merged = given

\* a pass of the while loop after which the loop goes on has shortened the list
PassShortens ==
    (MergeCalled /\ ~output.returned /\ output.merged /\ output'.merged) =>
        Len(output'.normalized_bboxes) < Len(output.normalized_bboxes)

\* C19: merge_overlapping_bboxes terminates (every pass that keeps the loop going
\* shortens the list), and in the list it returns no two boxes are within the
\* threshold of each other on both axes and every box handed in is contained in some
\* box; two boxes within the threshold come back as their bounding union, two boxes
\* farther apart come back unchanged.
C19_MergedToFixpoint ==
    /\ [](MergeReturned => MergePostcondition)
    /\ [][PassShortens]_vars

\* C19: three boxes of which the first two are apart and the third is near both came
\* back as one box
C19_ChainMerged ==
    /\ MergeReturned
    /\ Len(input.boxes) = 3
    /\ ~Near(input.boxes[1], input.boxes[2], input.merge_threshold)
    /\ Near(input.boxes[1], input.boxes[3], input.merge_threshold)
    /\ Near(input.boxes[2], input.boxes[3], input.merge_threshold)
    /\ Len(output.normalized_bboxes) = 1

\* ------------------------------------------------------------------ scaled bboxes
Distance(a, b) == IF a >= b THEN a - b ELSE b - a

ScaledBack == output # NoValue /\ output.back # NoValue

WithinOne == \A k \in 1 .. 4 : Distance(output.back[k], input.bbox[k]) <= 1

\* C20 as stated: for any bbox and any positive sizes, scaling from source_size to
\* target_size and back recovers the bbox to within 1 in each coordinate.
C20_AsStated == ScaledBack => WithinOne

\* C20, amended: when target_size is at least source_size in width and in height,
\* scaling from source_size to target_size and back recovers the bbox to within 1 in
\* each coordinate.
C20_RoundTripWhenEnlarging ==
    (/\ ScaledBack
     /\ input.target_size[1] >= input.source_size[1]
     /\ input.target_size[2] >= input.source_size[2]) => WithinOne

\* C20: a bbox enlarged in both directions and scaled back has come back with a
\* coordinate that is 1 off
C20_OneOff ==
    /\ ScaledBack
    /\ input.target_size[1] > input.source_size[1]
    /\ input.target_size[2] > input.source_size[2]
    /\ input.bbox[1] < input.bbox[3]
    /\ input.bbox[2] < input.bbox[4]
    /\ WithinOne
    /\ \E k \in 1 .. 4 : Distance(output.back[k], input.bbox[k]) = 1

\* ------------------------------------------------------------------ flattened outlines
IsGroup(item) == "part" \in DOMAIN item /\ "pages" \in DOMAIN item

\* the entries an item accounts for
EntriesOf(item) == IF IsGroup(item) THEN Len(item.pages) ELSE 1

\* the entries the first n items of the outline account for
RECURSIVE EntriesUpTo(_, _)
EntriesUpTo(outline, n) ==
    IF n = 0 THEN 0 ELSE EntriesUpTo(outline, n - 1) + EntriesOf(outline[n])

\* C21: flatten_outline returns as many entries as the groups have pages plus the
\* number of direct pages, in the order of the outline; a page taken from a group is
\* that page with the group's part label, and a direct page comes back as it was.
C21_FlattenedInOrder ==
    output # NoValue =>
        LET outline == input.outline
            pages == output.pages
        IN  /\ Len(pages) = EntriesUpTo(outline, Len(outline))
            /\ \A i \in DOMAIN outline :
                  LET before == EntriesUpTo(outline, i - 1)
                      item == outline[i]
                  IN  IF IsGroup(item)
                      THEN \A m \in DOMAIN item.pages :
                              /\ DOMAIN pages[before + m] = DOMAIN item.pages[m] \cup {"part"}
                              /\ pages[before + m].part = item.part
                              /\ pages[before + m].title = item.pages[m].title
                      ELSE pages[before + 1] = item

\* C21: a group of two pages, one of which had a part label of its own, followed by a
\* direct page without a label, has been flattened
C21_GroupThenPage ==
    /\ output # NoValue
    /\ Len(input.outline) = 2
    /\ IsGroup(input.outline[1])
    /\ Len(input.outline[1].pages) = 2
    /\ "part" \in DOMAIN input.outline[1].pages[1]
    /\ input.outline[1].pages[1].title # input.outline[1].pages[2].title
    /\ ~IsGroup(input.outline[2])
    /\ "part" \notin DOMAIN input.outline[2]
    /\ Len(output.pages) = 3
    /\ "part" \notin DOMAIN output.pages[3]

\* ------------------------------------------------------------------ overlapping runs
\* C22: the PageImageVersion rows of a page have pairwise distinct version_numbers,
\* increasing in the order in which the rows were created, also when runs of
\* generate_single_page_image_task and edit_page_image_task on the page overlap.
C22_VersionNumbersIncrease ==
    \A i, j \in 1 .. Len(versions) :
        (i < j /\ versions[i].page_id = versions[j].page_id) =>
            versions[i].version_number < versions[j].version_number

\* C22: two runs on one page have both completed and left two rows with the same
\* version_number
C22_SameNumberTwice ==
    \E t, u \in Tasks, i, j \in 1 .. Len(versions) :
        /\ t # u
        /\ job[t].page_id = job[u].page_id
        /\ task[t].status = "COMPLETED"
        /\ task[u].status = "COMPLETED"
        /\ i < j
        /\ versions[i].page_id = job[t].page_id
        /\ versions[j].page_id = job[t].page_id
        /\ versions[i].version_number = versions[j].version_number

\* ------------------------------------------------------------------ overlapping tool calls
\* C23: when tool calls on one instance overlap, no call hands a task to the Task
\* Manager while 4 tasks of the instance are PENDING or PROCESSING: the ceiling of 4
\* holds in every interleaving of the checks, Task creations, submissions and
\* tracking steps.
C23_CeilingUnderOverlap ==
    [][job' # job => Cardinality(InFlight) < max_concurrent_tasks]_vars

\* C23: both threads passed the limit check while three tasks were in flight, and five
\* tasks of the instance are in flight; no call was answered with the at-capacity dict
C23_FiveInFlight ==
    /\ Cardinality(InFlight) = max_concurrent_tasks + 1
    /\ \A c \in Threads : result[c] # AtCapacity

\* ------------------------------------------------------------------ output file names of the exports
BothNamed ==
    /\ output # NoValue
    /\ output.legacy # NoValue
    /\ output.recursive # NoValue

\* C24: for the same requested name, the same file at its path and the same time, the
\* recursive export task chooses the file name export_editable_pptx_task chooses: the
\* requested name (with .pptx) when no such file exists or the existing file can be
\* opened for writing, the timestamp-suffixed name when the existing file cannot.
C24_SameFilenameRule ==
    BothNamed =>
        /\ output.recursive = output.legacy
        /\ input.at_path # "locked" => output.recursive = with_pptx(input.filename)
        /\ input.at_path = "locked" =>
              output.recursive = stamped(with_pptx(input.filename), input.timestamp)

\* C24: a file of the requested name exists and can be opened for writing; the legacy
\* task keeps the name, the recursive task has chosen the timestamp-suffixed one
C24_WritableRenamed ==
    /\ BothNamed
    /\ input.at_path = "writable"
    /\ output.legacy = with_pptx(input.filename)
    /\ output.recursive = stamped(with_pptx(input.filename), input.timestamp)
    /\ output.recursive # output.legacy

\* ------------------------------------------------------------------ elements on the slide
\* the elements of a tree, children included
RECURSIVE AllElements(_)
AllElements(elements) ==
    IF elements = <<>> THEN {}
    ELSE {Head(elements)} \cup AllElements(Head(elements).children)
                          \cup AllElements(Tail(elements))

ElementOf(shape) ==
    CHOOSE elem \in AllElements(input.elements) : elem.element_id = shape.element_id

\* C25: every shape that create_editable_pptx_with_recursive_analysis adds for an
\* element, at every depth of the recursion, is at the element's bbox_global (scale
\* factor 1.0).
C25_PlacedAtGlobalBbox ==
    output # NoValue =>
        \A i \in DOMAIN output.shapes :
            output.shapes[i].bbox = ElementOf(output.shapes[i]).bbox_global

\* C25: a text found inside a figure has been added at its bbox within the figure,
\* which is not its bbox on the slide
C25_ChildAtLocalBbox ==
    /\ output # NoValue
    /\ \E i \in DOMAIN output.shapes :
          LET elem == ElementOf(output.shapes[i])
          IN  /\ Len(elem.element_id) = 2
              /\ elem.element_type = "text"
              /\ input.elements[1].element_type = "figure"
              /\ output.shapes[i].bbox = elem.bbox
              /\ elem.bbox # elem.bbox_global

\* ------------------------------------------------------------------ the static mask method
\* C26: InpaintingService.create_mask_image(image_size, bboxes, expand_pixels) returns
\* the mask that create_mask_from_bboxes(image_size, bboxes,
\* expand_pixels=expand_pixels) returns, pixel for pixel.
C26_SameMask == output # NoValue => output.static = output.direct

\* C26: for one box and expand_pixels = 1 the static method has returned a mask whose
\* box pixels have the colour (1, 0, 0), where create_mask_from_bboxes has white
C26_ExpansionAsColour ==
    /\ output # NoValue
    /\ input.expand_pixels = 1
    /\ Len(input.boxes) = 1
    /\ \E px \in DOMAIN output.direct :
          /\ output.direct[px] = White
          /\ output.static[px] = <<1, 0, 0>>
    /\ \E px \in DOMAIN output.direct :
          /\ output.direct[px] = White
          /\ output.static[px] = Black

\* ------------------------------------------------------------------ the synchronous tools' frame
\* the page the last call addressed is a page of the toolkit's project
Addressed(rows) ==
    input'.page_id \in Pages /\ rows[input'.page_id].project_id = ToolProject

\* C27: a call of update_page_description or update_page_outline changes, of all
\* rows, only the addressed page's description (outline) content and updated_at and
\* the project's updated_at; it creates no Task, leaves every page's status,
\* generated_image_path and image versions as they were, and changes no row at all
\* when the page is missing or belongs to another project.
C27_UpdateFrame ==
    [][/\ task' = task
       /\ job' = job
       /\ pc' = pc
       /\ versions' = versions
       /\ materials' = materials
       /\ \A p \in Pages :
             /\ page'[p].status = page[p].status
             /\ page'[p].generated_image_path = page[p].generated_image_path
             /\ page'[p].project_id = page[p].project_id
             /\ p # input'.page_id => page'[p] = page[p]
             /\ input'.tool = "update_page_description" =>
                   page'[p].outline_content = page[p].outline_content
             /\ input'.tool = "update_page_outline" =>
                   /\ page'[p].description = page[p].description
                   /\ page'[p].description_content = page[p].description_content
       /\ \A pr \in Projects :
             /\ project'[pr].status = project[pr].status
             /\ pr # ToolProject => project'[pr] = project[pr]
       /\ ~Addressed(page) => page' = page /\ project' = project /\ ~result'.success
       /\ result'.success =>
             /\ Addressed(page)
             /\ input'.tool = "update_page_description" =>
                   page'[input'.page_id].description = input'.content
             /\ input'.tool = "update_page_outline" =>
                   page'[input'.page_id].outline_content = input'.content]_vars

\* C27: the description of a page that has its image was replaced by a second one,
\* after a call for the other project's page was refused at some point: that page
\* has no content from a tool
C27_DescriptionReplaced ==
    /\ input # NoValue
    /\ input.tool = "update_page_description"
    /\ result.success
    /\ input.content = 2
    /\ page[input.page_id].description = 2
    /\ page[input.page_id].status = "COMPLETED"
    /\ page[input.page_id].generated_image_path # NoPath
    /\ page[input.page_id].outline_content = 1
    /\ page[MaxPages].description = 0
    /\ project[ToolProject].updated_at = UpdateTimes

\* ------------------------------------------------------------------ a completed project
\* generate_images_task t writes the project's status in this step
SetsProjectCompleted(t) ==
    /\ job[t].func = "generate_images_task"
    /\ pc[t] = "project"
    /\ pc'[t] = "done"
    /\ project'[job[t].project_id] = "COMPLETED"

\* C28: whenever generate_images_task sets the project's status to COMPLETED, every
\* page of that project has status COMPLETED and a generated_image_path.
C28_CompletedProjectHasImages ==
    [][\A t \in Tasks :
          SetsProjectCompleted(t) =>
              \A p \in ProjectPages(job[t].project_id) :
                  /\ page'[p].status = "COMPLETED"
                  /\ page'[p].generated_image_path # NoPath]_vars

\* C28: a run with an outline one entry shorter than the project has pages ended
\* without a failure and the project is COMPLETED, while a page of it has no image
C28_CompletedWithoutImage ==
    \E t \in Tasks :
        /\ job[t].func = "generate_images_task"
        /\ job[t].outline_len < Cardinality(ProjectPages(job[t].project_id))
        /\ pc[t] = "done"
        /\ task[t].status = "COMPLETED"
        /\ task[t].progress.failed = 0
        /\ project[job[t].project_id] = "COMPLETED"
        /\ \E p \in ProjectPages(job[t].project_id) :
              /\ page[p].generated_image_path = NoPath
              /\ page[p].status # "COMPLETED"

\* ------------------------------------------------------------------ progress counters
FanOutTasks ==
    {t \in Tasks : job[t].func \in {"generate_descriptions_task", "generate_images_task"}}

\* C29: in every state of generate_descriptions_task and generate_images_task,
\* progress.completed + progress.failed <= progress.total; neither counter ever
\* decreases; and a task that is COMPLETED has completed + failed = total.
C29_ProgressAddsUp ==
    /\ [](\A t \in FanOutTasks :
            /\ task[t].progress.completed + task[t].progress.failed <= task[t].progress.total
            /\ task[t].status = "COMPLETED" =>
                  task[t].progress.completed + task[t].progress.failed
                      = task[t].progress.total)
    /\ [][\A t \in FanOutTasks :
            /\ task'[t].progress.completed >= task[t].progress.completed
            /\ task'[t].progress.failed >= task[t].progress.failed]_vars

\* C29: generate_images_task is COMPLETED with every submitted page counted, and
\* completed + failed is less than total
C29_CompletedShortOfTotal ==
    \E t \in Tasks :
        /\ job[t].func = "generate_images_task"
        /\ task[t].status = "COMPLETED"
        /\ task[t].progress.total = Cardinality(ProjectPages(job[t].project_id))
        /\ task[t].progress.completed + task[t].progress.failed = job[t].outline_len
        /\ task[t].progress.completed + task[t].progress.failed < task[t].progress.total

\* ------------------------------------------------------------------ pages of other projects
\* task t was handed a page that exists and belongs to another project than its own
ForeignPage(t) ==
    /\ job[t].func \in PageTasks
    /\ job[t].page_id \in Pages
    /\ page[job[t].page_id].project_id # job[t].project_id

\* C30: generate_single_page_image_task and edit_page_image_task never modify a Page
\* of another project than the task's: a task that was handed such a page ends
\* FAILED, and the page's status, generated_image_path and image versions stay as
\* they were.
C30_ForeignPageUntouched ==
    /\ [](\A t \in Tasks : ForeignPage(t) /\ Ended(t) => task[t].status = "FAILED")
    /\ [][\A p \in Pages :
            (\A t \in Tasks :
                job'[t].func \in PageTasks => job'[t].project_id # page[p].project_id) =>
                /\ page'[p] = page[p]
                /\ {versions'[i] : i \in {j \in DOMAIN versions' : versions'[j].page_id = p}}
                     = {versions[i] : i \in VersionsOf(p)}]_vars

\* C30: a task of one project was handed a page of another, ended FAILED with
\* "Page not found", and that page's status is FAILED
C30_ForeignPageFailed ==
    \E t \in Tasks :
        /\ ForeignPage(t)
        /\ pc[t] = "done"
        /\ task[t].status = "FAILED"
        /\ task[t].error_message = "Page not found"
        /\ page[job[t].page_id].status = "FAILED"
        /\ page[job[t].page_id].generated_image_path = NoPath
====
